---------------------------- MODULE Spec2Model ----------------------------
(***************************************************************************)
(* Model of the x-ui panel adapter (xui_client.py) and of the provisioning *)
(* orchestrator (bot.py, _create_client_for_inbound).                      *)
(*                                                                         *)
(* Strings are sequences of one-character strings, so that startswith,     *)
(* slicing, int() and f-string formatting are computed as Python computes  *)
(* them.  The panel is the environment: it answers every request either    *)
(* with an accepted response or with a response the adapter does not       *)
(* accept, and it keeps the roster of every inbound.                       *)
(***************************************************************************)
EXTENDS Integers, Sequences, FiniteSets, TLC

VARIABLES
    inbounds,       \* panel: inbound id -> inbound object (with its clients)
    panelChecksEmail, \* panel: whether its addClient endpoint refuses a known email
    now,            \* wall clock, milliseconds
    db,             \* bot.db: users' quota counters and the issuance log
    pc,             \* per session: position in the running operation
    op,             \* per session: the operation that is running
    username,       \* per session: base_username / the Telegram username
    email,          \* per session: the handle in use
    attempted,      \* per session: attempted_emails / excluded_emails
    attempt,        \* per session: loop index of the retry loop
    success,        \* per session: the orchestrator's success flag
    inbound,        \* per session: the inbound object fetched by this call
    clients,        \* per session: the client list parsed from that inbound
    new_client,     \* per session: the client object built by add_client_to_inbound
    ret,            \* per session: value returned by the last adapter call
    config,         \* per session: the URI delivered to the user
    add_days,       \* per session: argument of update_client_expiry
    expire_time,    \* per session: argument of add_client_to_inbound
    current_time,   \* per session: the clock as update_client_expiry read it
    current_expiry, \* per session: the expiryTime update_client_expiry found
    outcome,        \* per session: what the finished operation reported to its caller
    started,        \* per session: the panel roster when the operation started
    env_failed,     \* per session: whether the panel refused a request of the operation
    add_calls,      \* per session: add_client_to_inbound calls of the current run
    posted,         \* per session: whether the current adapter call sent a mutation request
    runs,           \* per session: operations started so far
    log,            \* per session: the call that returned before the current one started
    token,          \* adapter: self.token
    authorization,  \* adapter: session.headers["Authorization"]
    stack,          \* request level: the adapter methods being executed, innermost last
    hpc,            \* request level: position in the innermost method
    login_url,      \* request level: index of the login URL being tried
    cand,           \* request level: index of the candidate being tried
    tried,          \* request level: candidates requested so far for the current operation
    accepted,       \* request level: the candidate accepted for the current operation, 0 if none
    resp,           \* request level: the last response to an inbound request
    issued,         \* request level: the credential the most recent successful login returned
    sent,           \* request level: the kinds of requests the current call has sent
    first,          \* request level: kind of the first request of the current call
    relogins,       \* request level: logins triggered by the response to the current candidate
    fetched,        \* request level: value the innermost get_inbounds() returned
    result,         \* request level: what the finished call gave its caller
    ncalls,         \* request level: calls started so far
    unusable,       \* request level: the running listing loop got an answer it cannot use
    failure,        \* lookups: the step of the call that the panel let fail, "none" if none
    overlapped,     \* sessions: whether an operation started while another was in progress
    args,           \* lookups: the arguments of the call
    reminders,      \* bot.db: the table reminders and its autoincrement counter
    reminded        \* reminders: the messages check_and_send_reminders got delivered

vars == <<inbounds, panelChecksEmail, now, db, pc, op, username, email, attempted,
          attempt, success, inbound, clients, new_client, ret, config,
          add_days, expire_time, current_time, current_expiry, outcome, started,
          env_failed, add_calls, posted, runs, log,
          token, authorization, stack, hpc, login_url, cand, tried, accepted, resp,
          issued, sent, first, relogins, fetched, result, ncalls, unusable, failure,
          overlapped, args, reminders, reminded>>

panelVars == <<inbounds, panelChecksEmail>>
extendVars == <<add_days, current_time, current_expiry>>
sessionVars == <<db, pc, op, username, email, attempted, attempt, success, inbound,
                 clients, new_client, ret, config, add_days, expire_time, current_time,
                 current_expiry, outcome, started, env_failed, add_calls, posted, runs, log>>
reminderVars == <<reminders, reminded>>
requestVars == <<token, authorization, stack, hpc, login_url, cand, tried, accepted, resp,
                 issued, sent, first, relogins, fetched, result, ncalls, unusable, failure,
                 args, reminderVars>>
httpVars == <<requestVars, overlapped>>

-----------------------------------------------------------------------------
(* Bounds of the model *)

MaxRoster == 3
MaxExcluded == 2
MaxRuns == 2
MaxClock == 1

-----------------------------------------------------------------------------
(* Python strings *)

\* None, where an object is expected
None == [none |-> TRUE]

Digits == <<"0", "1", "2", "3", "4", "5", "6", "7", "8", "9">>

IsDigit(c) == \E i \in 1..10 : Digits[i] = c

DigitVal(c) == (CHOOSE i \in 1..10 : Digits[i] = c) - 1

\* str.startswith
StartsWith(s, prefix) ==
    /\ Len(s) >= Len(prefix)
    /\ SubSeq(s, 1, Len(prefix)) = prefix

\* s[n:]
SliceFrom(s, n) == SubSeq(s, n + 1, Len(s))

\* int(s) accepts decimal digits, with single underscores between digits
IntOk(s) ==
    /\ Len(s) >= 1
    /\ IsDigit(s[1])
    /\ IsDigit(s[Len(s)])
    /\ \A i \in 1..Len(s) : IsDigit(s[i]) \/ s[i] = "_"
    /\ \A i \in 1..(Len(s) - 1) : ~(s[i] = "_" /\ s[i + 1] = "_")

RECURSIVE IntVal(_)
IntVal(s) ==
    IF s = <<>> THEN 0
    ELSE IF s[Len(s)] = "_" THEN IntVal(SubSeq(s, 1, Len(s) - 1))
    ELSE 10 * IntVal(SubSeq(s, 1, Len(s) - 1)) + DigitVal(s[Len(s)])

\* str(n) for n >= 0
RECURSIVE IntToStr(_)
IntToStr(n) ==
    IF n < 10 THEN <<Digits[n + 1]>>
    ELSE IntToStr(n \div 10) \o <<Digits[(n % 10) + 1]>>

\* f"{base_username}_{number}"
NumberedEmail(base_username, number) == base_username \o <<"_">> \o IntToStr(number)

SeqToSet(s) == {s[i] : i \in 1..Len(s)}

\* [c.get("email") for c in clients]
Emails(cs) == [i \in 1..Len(cs) |-> cs[i].email]


-----------------------------------------------------------------------------
(* The panel's data *)

TheInbound == 7

\* a client object of settings.clients
Client(e, id, expiry) == [id |-> id, email |-> e, expiryTime |-> expiry, enable |-> TRUE]

\* the inbound object of the listing
Inbound(cs) ==
    [id |-> TheInbound, remark |-> "Srv", protocol |-> "vless", port |-> 443,
     clients |-> cs, streamSettings |-> [network |-> "tcp", security |-> "none"]]

\* get_inbounds(): the listing when a candidate is accepted, [] otherwise
get_inbounds(listOK) == IF listOK THEN inbounds ELSE <<>>

\* next((i for i in inbounds if i.get("id") == inbound_id), None)
FindInbound(listing, inbound_id) ==
    IF inbound_id \in DOMAIN listing THEN listing[inbound_id] ELSE None

-----------------------------------------------------------------------------
(* XUIClient.get_next_available_email *)

\* the numbers the two scanning loops add to used_numbers for a collection of emails
NumbersOf(base_username, es) ==
    (IF base_username \in es THEN {0} ELSE {})
    \cup {IntVal(SliceFrom(e, Len(base_username) + 1)) :
            e \in {x \in es : /\ StartsWith(x, base_username \o <<"_">>)
                              /\ IntOk(SliceFrom(x, Len(base_username) + 1))}}

\* used_numbers after the loop over excluded_emails and the loop over clients
UsedNumbers(base_username, cs, excluded_emails) ==
    NumbersOf(base_username, SeqToSet(excluded_emails))
    \cup NumbersOf(base_username,
                   {e \in SeqToSet(Emails(cs)) : e \notin SeqToSet(excluded_emails)})

\* has_base_email after both loops
HasBaseEmail(base_username, cs, excluded_emails) ==
    \/ base_username \in SeqToSet(excluded_emails)
    \/ base_username \in {e \in SeqToSet(Emails(cs)) : e \notin SeqToSet(excluded_emails)}

\* while next_number in used_numbers: next_number += 1
RECURSIVE FirstFree(_, _)
FirstFree(next_number, used_numbers) ==
    IF next_number \in used_numbers THEN FirstFree(next_number + 1, used_numbers)
    ELSE next_number

\* the if/else that picks next_number
NextNumber(base_username, cs, excluded_emails) ==
    LET used_numbers == UsedNumbers(base_username, cs, excluded_emails)
    IN  IF ~HasBaseEmail(base_username, cs, excluded_emails) /\ 0 \notin used_numbers
        THEN 1
        ELSE FirstFree(1, used_numbers)

\* the inbound of the listing when its settings string is not JSON
UnparsedInbound == [id |-> TheInbound, settings |-> [kind |-> "malformed"]]

\* json.loads(settings_str) raises on the inbound found
SettingsRaise(found) ==
    "settings" \in DOMAIN found /\ found.settings.kind = "malformed"

\* an allocator that hands out the bare base username while it is free
get_next_available_email_bare(authOK, found, base_username, excluded_emails) ==
    IF ~authOK THEN NumberedEmail(base_username, 1)
    ELSE IF found = None THEN NumberedEmail(base_username, 1)
    ELSE IF SettingsRaise(found) THEN NumberedEmail(base_username, 1)
    ELSE IF ~HasBaseEmail(base_username, found.clients, excluded_emails)
    THEN base_username
    ELSE NumberedEmail(base_username, NextNumber(base_username, found.clients, excluded_emails))

\* an allocator whose default skips the excluded handles
get_next_available_email_skipping(authOK, found, base_username, excluded_emails) ==
    IF ~authOK \/ found = None \/ SettingsRaise(found)
    THEN NumberedEmail(base_username, NextNumber(base_username, <<>>, excluded_emails))
    ELSE NumberedEmail(base_username, NextNumber(base_username, found.clients, excluded_emails))

\* the whole call: default on a failed login, a missing inbound or an exception
get_next_available_email(authOK, found, base_username, excluded_emails) ==
    IF ~authOK THEN NumberedEmail(base_username, 1)
    ELSE IF found = None THEN NumberedEmail(base_username, 1)
    ELSE IF SettingsRaise(found) THEN NumberedEmail(base_username, 1)
    ELSE NumberedEmail(base_username, NextNumber(base_username, found.clients, excluded_emails))


-----------------------------------------------------------------------------
(* Sessions: the callers of the adapter that share the panel *)

Procs == {1, 2}

u == <<"u">>
u_1 == <<"u", "_", "1">>
u_2 == <<"u", "_", "2">>
u_3 == <<"u", "_", "3">>
u_01 == <<"u", "_", "0", "1">>
u_x == <<"u", "_", "x">>
ux == <<"u", "x">>
w_1 == <<"w", "_", "1">>

Usernames == {u}

\* the handles rosters and exclusion lists are drawn from
EmailPool == {u, u_1, u_2, u_3, u_01, u_x, ux, w_1}

RECURSIVE SetToSeq(_)
SetToSeq(S) ==
    IF S = {} THEN <<>>
    ELSE LET x == CHOOSE y \in S : TRUE IN <<x>> \o SetToSeq(S \ {x})

\* the client lists a panel may hold when the bot starts: handles are unique
Rosters(pool, n) ==
    {[i \in 1..Len(SetToSeq(S)) |-> Client(SetToSeq(S)[i], [by |-> 0, n |-> i], 0)] :
        S \in {T \in SUBSET pool : Cardinality(T) <= n}}

RECURSIVE SeqsUpTo(_, _)
SeqsUpTo(S, n) ==
    IF n = 0 THEN {<<>>}
    ELSE SeqsUpTo(S, n - 1)
         \cup {Append(q, x) : q \in {r \in SeqsUpTo(S, n - 1) : Len(r) = n - 1}, x \in S}

NoUser == <<>>
NoEmail == <<>>
NoConfig == <<>>

InitSessions ==
    /\ pc = [p \in Procs |-> "idle"]
    /\ op = [p \in Procs |-> "none"]
    /\ username = [p \in Procs |-> NoUser]
    /\ email = [p \in Procs |-> NoEmail]
    /\ attempted = [p \in Procs |-> <<>>]
    /\ attempt = [p \in Procs |-> 0]
    /\ success = [p \in Procs |-> FALSE]
    /\ inbound = [p \in Procs |-> None]
    /\ clients = [p \in Procs |-> <<>>]
    /\ new_client = [p \in Procs |-> None]
    /\ ret = [p \in Procs |-> FALSE]
    /\ config = [p \in Procs |-> NoConfig]
    /\ add_days = [p \in Procs |-> 0]
    /\ expire_time = [p \in Procs |-> 0]
    /\ current_time = [p \in Procs |-> 0]
    /\ current_expiry = [p \in Procs |-> 0]
    /\ outcome = [p \in Procs |-> "none"]
    /\ started = [p \in Procs |-> <<>>]
    /\ env_failed = [p \in Procs |-> FALSE]
    /\ add_calls = [p \in Procs |-> 0]
    /\ posted = [p \in Procs |-> FALSE]
    /\ runs = [p \in Procs |-> 0]
    /\ log = [p \in Procs |-> <<>>]
    /\ token = ""
    /\ authorization = <<>>
    /\ stack = <<>>
    /\ hpc = "idle"
    /\ login_url = 0
    /\ cand = 0
    /\ tried = {}
    /\ accepted = 0
    /\ resp = [status |-> 0, ctype |-> "", body |-> ""]
    /\ issued = ""
    /\ sent = {}
    /\ first = "none"
    /\ relogins = 0
    /\ fetched = <<>>
    /\ result = [kind |-> "none"]
    /\ ncalls = 0
    /\ unusable = FALSE
    /\ failure = "none"
    /\ overlapped = FALSE
    /\ reminders = [rows |-> <<>>, seq |-> 0]
    /\ reminded = <<>>
    /\ args = <<>>

\* users: the row /start inserts, add_user(user_id, username, full_name, 1)
DefaultLimit == 1

InitDb == db = [config_limit |-> [n \in Usernames \cup {NoUser} |-> DefaultLimit],
                configs_created |-> [n \in Usernames \cup {NoUser} |-> 0],
                issued_configs |-> <<>>]

-----------------------------------------------------------------------------
(* The allocator alone: one call of get_next_available_email per session, for
   every roster of the inbound and every list of excluded emails *)

InitAlloc ==
    /\ inbounds \in {[i \in {TheInbound} |-> Inbound(cs)] : cs \in Rosters(EmailPool, MaxRoster)}
    /\ panelChecksEmail = FALSE
    /\ now = 0
    /\ InitDb
    /\ InitSessions

NextEmailCall(p) ==
    /\ UNCHANGED httpVars
    /\ \A q \in Procs : pc[q] = "idle"
    /\ \E authOK \in BOOLEAN, listOK \in BOOLEAN, parses \in BOOLEAN,
          base_username \in Usernames,
          excluded_emails \in SeqsUpTo(EmailPool, MaxExcluded) :
            LET listed == IF authOK THEN FindInbound(get_inbounds(listOK), TheInbound)
                          ELSE None
                found == IF listed # None /\ ~parses THEN UnparsedInbound ELSE listed
            IN  /\ username' = [username EXCEPT ![p] = base_username]
                /\ attempted' = [attempted EXCEPT ![p] = excluded_emails]
                /\ inbound' = [inbound EXCEPT ![p] = found]
                /\ email' = [email EXCEPT ![p] =
                       get_next_available_email(authOK, found, base_username, excluded_emails)]
    /\ pc' = [pc EXCEPT ![p] = "done"]
    /\ op' = [op EXCEPT ![p] = "next_email"]
    /\ UNCHANGED <<panelVars, now, db, attempt, success, clients, new_client, ret,
                   config, extendVars, expire_time, outcome, started, env_failed,
                   add_calls, posted, runs, log>>

NextAlloc == \E p \in Procs : NextEmailCall(p)

SpecAlloc == InitAlloc /\ [][NextAlloc]_vars

\* the smallest k >= 1 such that base_k is no member of the set of handles
SmallestFreeSuffix(base_username, taken) ==
    CHOOSE k \in 1..(Cardinality(taken) + 1) :
        /\ NumberedEmail(base_username, k) \notin taken
        /\ \A j \in 1..(k - 1) : NumberedEmail(base_username, j) \in taken

\* C1: whenever get_next_available_email has read the roster, it returns base_k
\* for the smallest k >= 1 such that base_k is neither in the roster nor excluded
C1_SmallestFreeHandle ==
    \A p \in Procs :
        (/\ pc[p] = "done" /\ op[p] = "next_email"
         /\ inbound[p] # None /\ ~SettingsRaise(inbound[p])) =>
            email[p] = NumberedEmail(username[p],
                          SmallestFreeSuffix(username[p],
                              SeqToSet(Emails(inbound[p].clients)) \cup SeqToSet(attempted[p])))

\* C2: get_next_available_email never returns a member of excluded_emails
C2_NeverReturnsExcluded ==
    \A p \in Procs :
        (/\ pc[p] = "done" /\ op[p] = "next_email"
         /\ inbound[p] # None /\ ~SettingsRaise(inbound[p])) =>
            email[p] \notin SeqToSet(attempted[p])

-----------------------------------------------------------------------------
(* URI synthesis: a URI is the sequence of the pieces the f-strings join *)

\* d.get(k, default)
Get(d, k, default) == IF k \in DOMAIN d THEN d[k] ELSE default

EmptyDict == <<>>

\* self.base_url.split("://")[1].split(":")[0]
Server == "panel.host"

\* a generator that appends the host and path parameters whatever the network
_generate_vless_config_any_network(uuid, port, remark, stream_settings) ==
    LET security == Get(stream_settings, "security", "none")
        wsSettings == Get(stream_settings, "wsSettings", EmptyDict)
        host == Get(Get(wsSettings, "headers", EmptyDict), "Host", "")
        path == Get(wsSettings, "path", "/")
    IN  <<"vless://", uuid, "@", Server, ":", port,
          "?type=", Get(stream_settings, "network", "tcp"), "&security=", security>>
        \o (IF host # "" THEN <<"&host=", host>> ELSE <<>>)
        \o (IF path # "" THEN <<"&path=", path>> ELSE <<>>)
        \o <<"#", remark>>

\* a generator that takes the server name only from realitySettings["settings"]
_generate_vless_config_no_fallback(uuid, port, remark, stream_settings) ==
    LET security == Get(stream_settings, "security", "none")
        reality_settings == Get(stream_settings, "realitySettings", EmptyDict)
        reality_config == Get(reality_settings, "settings", EmptyDict)
        public_key == Get(reality_config, "publicKey", "")
        fingerprint == Get(reality_config, "fingerprint", "chrome")
        server_name == Get(reality_config, "serverName", "")
        short_ids == Get(reality_settings, "shortIds", <<>>)
    IN  <<"vless://", uuid, "@", Server, ":", port,
          "?type=", Get(stream_settings, "network", "tcp"), "&security=", security>>
        \o (IF security = "reality"
            THEN (IF public_key # "" THEN <<"&pbk=", public_key>> ELSE <<>>)
                 \o (IF fingerprint # "" THEN <<"&fp=", fingerprint>> ELSE <<>>)
                 \o (IF server_name # "" THEN <<"&sni=", server_name>> ELSE <<>>)
                 \o (IF short_ids # <<>> THEN <<"&sid=", short_ids[1]>> ELSE <<>>)
            ELSE <<>>)
        \o <<"#", remark>>

_generate_vless_config(uuid, port, remark, stream_settings) ==
    LET network == Get(stream_settings, "network", "tcp")
        security == Get(stream_settings, "security", "none")
        wsSettings == Get(stream_settings, "wsSettings", EmptyDict)
        host == Get(Get(wsSettings, "headers", EmptyDict), "Host", "")
        path == Get(wsSettings, "path", "/")
        reality_settings == Get(stream_settings, "realitySettings", EmptyDict)
        reality_config == Get(reality_settings, "settings", EmptyDict)
        public_key == Get(reality_config, "publicKey", "")
        fingerprint == Get(reality_config, "fingerprint", "chrome")
        server_names == Get(reality_settings, "serverNames", <<>>)
        server_name == IF Get(reality_config, "serverName", "") # ""
                       THEN Get(reality_config, "serverName", "")
                       ELSE IF server_names # <<>> THEN server_names[1] ELSE ""
        short_ids == Get(reality_settings, "shortIds", <<>>)
        spider_x == Get(reality_config, "spiderX", "/")
        head == <<"vless://", uuid, "@", Server, ":", port,
                  "?type=", network, "&security=", security>>
        reality == IF security = "reality"
                   THEN (IF public_key # "" THEN <<"&pbk=", public_key>> ELSE <<>>)
                        \o (IF fingerprint # "" THEN <<"&fp=", fingerprint>> ELSE <<>>)
                        \o (IF server_name # "" THEN <<"&sni=", server_name>> ELSE <<>>)
                        \o (IF short_ids # <<>> THEN <<"&sid=", short_ids[1]>> ELSE <<>>)
                        \o (IF spider_x # "" THEN <<"&spx=", spider_x>> ELSE <<>>)
                   ELSE <<>>
        ws == IF network = "ws"
              THEN (IF host # "" THEN <<"&host=", host>> ELSE <<>>)
                   \o (IF path # "" THEN <<"&path=", path>> ELSE <<>>)
              ELSE <<>>
    IN  head \o reality \o ws \o <<"#", remark>>

\* base64 of the compact JSON object: the object stands for its encoding
_generate_vmess_config(uuid, port, remark, stream_settings) ==
    LET network == Get(stream_settings, "network", "tcp")
        security == Get(stream_settings, "security", "none")
        wsSettings == Get(stream_settings, "wsSettings", EmptyDict)
        host == Get(Get(wsSettings, "headers", EmptyDict), "Host", "")
        path == Get(wsSettings, "path", "/")
    IN  <<"vmess://",
          [v |-> "2", ps |-> remark, add |-> Server, port |-> port, id |-> uuid,
           aid |-> "0", net |-> network, type |-> "none", host |-> host, path |-> path,
           tls |-> IF security \in {"tls", "reality"} THEN security ELSE "none"]>>

_generate_trojan_config(password, port, remark, stream_settings) ==
    LET security == Get(stream_settings, "security", "tls")
        wsSettings == Get(stream_settings, "wsSettings", EmptyDict)
        host == Get(Get(wsSettings, "headers", EmptyDict), "Host", "")
        path == Get(wsSettings, "path", "/")
    IN  <<"trojan://", password, "@", Server, ":", port, "?security=", security>>
        \o (IF host # "" THEN <<"&host=", host, "&path=", path>> ELSE <<>>)
        \o <<"#", remark>>

\* protocol.lower(), on the protocol names in use
Lower(protocol) ==
    CASE protocol = "VLESS" -> "vless"
      [] protocol = "Trojan" -> "trojan"
      [] OTHER -> protocol

\* a lookup that takes the first client whatever its email
FindClientAny(cs, e) == IF cs # <<>> THEN cs[1] ELSE None

\* next((c for c in clients if c.get("email") == email), None)
FindClient(cs, e) ==
    IF \E i \in 1..Len(cs) : cs[i].email = e
    THEN cs[CHOOSE i \in 1..Len(cs) :
                /\ cs[i].email = e
                /\ \A j \in 1..(i - 1) : cs[j].email # e]
    ELSE None

\* get_client_config after its login: None when the inbound or the client is
\* missing or the protocol is not one of the three
get_client_config(found, e, protocol) ==
    IF found = None THEN NoConfig
    ELSE IF FindClient(found.clients, e) = None THEN NoConfig
    ELSE LET client == FindClient(found.clients, e)
         IN  IF Lower(protocol) = "vless"
             THEN _generate_vless_config(client.id, found.port, found.remark,
                                         found.streamSettings)
             ELSE IF Lower(protocol) = "vmess"
             THEN _generate_vmess_config(client.id, found.port, found.remark,
                                         found.streamSettings)
             ELSE IF Lower(protocol) = "trojan"
             THEN _generate_trojan_config(Get(client, "password", None), found.port,
                                          found.remark, found.streamSettings)
             ELSE NoConfig

-----------------------------------------------------------------------------
(* bot.db *)

Users == Usernames \cup {NoUser}

\* Database.can_create_config
can_create_config(user) ==
    /\ user \in DOMAIN db.config_limit
    /\ db.config_limit[user] # 0
    /\ ~(db.configs_created[user] >= db.config_limit[user])

\* Database.record_issued_config: the INSERT and increment_configs_created
record_issued_config(user, e, inbound_id) ==
    [db EXCEPT !.issued_configs = Append(@, [user_id |-> user, email |-> e,
                                             inbound_id |-> inbound_id]),
               !.configs_created[user] = @ + 1]

-----------------------------------------------------------------------------
(* Program constants and the panel's side of the requests *)

max_attempts == 3
NumAddClientUrls == 4
NumAddUpdateUrls == 4
NumExpiryUpdateUrls == 6

\* config.CONFIG_EXPIRY_DAYS (31 when unset), kept small: TLC's integers are 32 bits wide
CONFIG_EXPIRY_DAYS == 2

MsPerDay == 24 * 60 * 60 * 1000

\* the clock when the model starts, and the days it may advance
Epoch == MsPerDay

Roster == inbounds[TheInbound].clients

\* POST .../addClient with {"id": inbound_id, "settings": {"clients": [new_client]}},
\* accepted: the panel appends the client to the inbound's client list
PanelAddClient(c) == [inbounds EXCEPT ![TheInbound].clients = Append(@, c)]

\* whether the panel may accept that request
PanelMayAdd(c) == panelChecksEmail => c.email \notin SeqToSet(Emails(Roster))

\* POST .../update/{inbound_id} with the inbound's fields and the whole client
\* list in "settings", accepted: the panel stores that client list
PanelUpdate(cs) == [inbounds EXCEPT ![TheInbound].clients = cs]

-----------------------------------------------------------------------------
(* Bookkeeping shared by the operations *)

\* what the caller keeps of the call that has returned: its arguments, its result
\* and the size of the roster when it started
Summary(p) ==
    IF pc[p] = "done"
    THEN <<[op |-> op[p], email |-> email[p], ret |-> ret[p], size |-> Len(started[p])]>>
    ELSE <<>>

\* the operation of session p ends and reports `out`
Done(p, r, out) ==
    /\ pc' = [pc EXCEPT ![p] = "done"]
    /\ ret' = [ret EXCEPT ![p] = r]
    /\ outcome' = [outcome EXCEPT ![p] = out]
    /\ log' = log

\* a new operation starts: every local of the session is set
Fresh(p, o, user, e, days, exp, calls) ==
    /\ op' = [op EXCEPT ![p] = o]
    /\ username' = [username EXCEPT ![p] = user]
    /\ email' = [email EXCEPT ![p] = e]
    /\ attempted' = [attempted EXCEPT ![p] = <<>>]
    /\ attempt' = [attempt EXCEPT ![p] = 0]
    /\ success' = [success EXCEPT ![p] = FALSE]
    /\ inbound' = [inbound EXCEPT ![p] = None]
    /\ clients' = [clients EXCEPT ![p] = <<>>]
    /\ new_client' = [new_client EXCEPT ![p] = None]
    /\ config' = [config EXCEPT ![p] = NoConfig]
    /\ add_days' = [add_days EXCEPT ![p] = days]
    /\ expire_time' = [expire_time EXCEPT ![p] = exp]
    /\ current_time' = [current_time EXCEPT ![p] = 0]
    /\ current_expiry' = [current_expiry EXCEPT ![p] = 0]
    /\ started' = [started EXCEPT ![p] = Roster]
    /\ env_failed' = [env_failed EXCEPT ![p] = FALSE]
    /\ add_calls' = [add_calls EXCEPT ![p] = calls]
    /\ posted' = [posted EXCEPT ![p] = FALSE]
    /\ runs' = [runs EXCEPT ![p] = @ + 1]

\* operations started so far, by all sessions
RECURSIVE SumOver(_, _)
SumOver(f, S) ==
    IF S = {} THEN 0
    ELSE LET x == CHOOSE y \in S : TRUE IN f[x] + SumOver(f, S \ {x})

\* whether an operation of another session is in progress
Overlaps(p) == \E q \in Procs \ {p} : pc[q] \notin {"idle", "done"}

CanStart(p) == pc[p] \in {"idle", "done"} /\ SumOver(runs, Procs) < MaxRuns

\* the listing an operation works on: its own login, then get_inbounds()
Fetch(authOK, listOK) ==
    IF authOK THEN FindInbound(get_inbounds(listOK), TheInbound) ELSE None

-----------------------------------------------------------------------------
(* bot.py: _create_client_for_inbound *)

\* the quota check, the username check and expire_time, up to the retry loop
StartCreate(p) ==
    /\ UNCHANGED requestVars
    /\ overlapped' = (overlapped \/ Overlaps(p))
    /\ pc[p] = "idle"
    /\ \E user \in Users :
        IF ~can_create_config(user)
        THEN /\ Fresh(p, "create", user, NoEmail, 0, 0, 0)
             /\ Done(p, FALSE, "refused")
        ELSE IF user = NoUser
        THEN /\ Fresh(p, "create", user, NoEmail, 0, 0, 0)
             /\ Done(p, FALSE, "no_username")
        ELSE /\ Fresh(p, "create", user, NoEmail, 0, now + CONFIG_EXPIRY_DAYS * MsPerDay, 0)
             /\ pc' = [pc EXCEPT ![p] = "alloc"]
             /\ ret' = [ret EXCEPT ![p] = FALSE]
             /\ outcome' = [outcome EXCEPT ![p] = "none"]
             /\ UNCHANGED log
    /\ UNCHANGED <<panelVars, now, db>>

\* one pass of the loop up to the call of add_client_to_inbound:
\* get_next_available_email, then attempted_emails.append(email)
Alloc(p) ==
    /\ UNCHANGED httpVars
    /\ pc[p] = "alloc"
    /\ \E authOK \in BOOLEAN, listOK \in BOOLEAN :
        LET e == get_next_available_email(authOK, Fetch(authOK, listOK),
                                          username[p], attempted[p])
        IN  /\ email' = [email EXCEPT ![p] = e]
            /\ attempted' = [attempted EXCEPT ![p] = Append(@, e)]
            /\ env_failed' = [env_failed EXCEPT ![p] = @ \/ ~authOK \/ ~listOK]
    /\ add_calls' = [add_calls EXCEPT ![p] = @ + 1]
    /\ posted' = [posted EXCEPT ![p] = FALSE]
    /\ pc' = [pc EXCEPT ![p] = "add_fetch"]
    /\ UNCHANGED <<panelVars, now, db, op, username, attempt, success, inbound, clients,
                   new_client, ret, config, extendVars, expire_time, outcome,
                   started, runs, log>>

\* AddReturns with a retry loop that runs a fourth time
AddReturnsFourAttempts(p, value) ==
  /\ clients' = [clients EXCEPT ![p] = <<>>]
  /\ new_client' = [new_client EXCEPT ![p] = None]
  /\
    IF op[p] = "add"
    THEN /\ Done(p, value, "returned")
         /\ UNCHANGED <<success, attempt>>
    ELSE IF value
    THEN /\ pc' = [pc EXCEPT ![p] = "get_inbounds"]
         /\ success' = [success EXCEPT ![p] = TRUE]
         /\ ret' = [ret EXCEPT ![p] = TRUE]
         /\ UNCHANGED <<attempt, outcome, log>>
    ELSE IF attempt[p] + 1 < max_attempts + 1
    THEN /\ pc' = [pc EXCEPT ![p] = "alloc"]
         /\ attempt' = [attempt EXCEPT ![p] = @ + 1]
         /\ ret' = [ret EXCEPT ![p] = FALSE]
         /\ UNCHANGED <<success, outcome, log>>
    ELSE /\ Done(p, FALSE, "exhausted")
         /\ UNCHANGED <<success, attempt>>

\* what follows the return of add_client_to_inbound, whose locals are gone: the
\* caller of a direct call gets the value; the retry loop breaks on True and goes
\* on, or gives up, on False
AddReturns(p, value) ==
  /\ clients' = [clients EXCEPT ![p] = <<>>]
  /\ new_client' = [new_client EXCEPT ![p] = None]
  /\
    IF op[p] = "add"
    THEN /\ Done(p, value, "returned")
         /\ UNCHANGED <<success, attempt>>
    ELSE IF value
    THEN /\ pc' = [pc EXCEPT ![p] = "get_inbounds"]
         /\ success' = [success EXCEPT ![p] = TRUE]
         /\ ret' = [ret EXCEPT ![p] = TRUE]
         /\ UNCHANGED <<attempt, outcome, log>>
    ELSE IF attempt[p] + 1 < max_attempts
    THEN /\ pc' = [pc EXCEPT ![p] = "alloc"]
         /\ attempt' = [attempt EXCEPT ![p] = @ + 1]
         /\ ret' = [ret EXCEPT ![p] = FALSE]
         /\ UNCHANGED <<success, outcome, log>>
    ELSE /\ Done(p, FALSE, "exhausted")
         /\ UNCHANGED <<success, attempt>>

\* after the loop: get_inbounds() and the lookup of the inbound
CreateGetInbounds(p) ==
    /\ UNCHANGED httpVars
    /\ pc[p] = "get_inbounds"
    /\ \E authOK \in BOOLEAN, listOK \in BOOLEAN :
        LET found == Fetch(authOK, listOK)
        IN  /\ env_failed' = [env_failed EXCEPT ![p] = @ \/ ~authOK \/ ~listOK]
            /\ inbound' = [inbound EXCEPT ![p] = found]
            /\ IF found = None
               THEN Done(p, FALSE, "no_inbound")
               ELSE /\ pc' = [pc EXCEPT ![p] = "get_config"]
                    /\ UNCHANGED <<ret, outcome, log>>
    /\ UNCHANGED <<panelVars, now, db, op, username, email, attempted, attempt, success,
                   clients, new_client, config, extendVars, expire_time, started,
                   add_calls, posted, runs>>

\* get_client_config, then record_issued_config and the delivery of the URI; a
\* failed login inside get_client_config raises and ends the run in the handler
CreateGetConfig(p) ==
    /\ UNCHANGED httpVars
    /\ pc[p] = "get_config"
    /\ \E authOK \in BOOLEAN, listOK \in BOOLEAN :
        LET cfg == get_client_config(Fetch(authOK, listOK), email[p], inbound[p].protocol)
        IN  /\ env_failed' = [env_failed EXCEPT ![p] = @ \/ ~authOK \/ ~listOK]
            /\ IF ~authOK
               THEN Done(p, FALSE, "error") /\ UNCHANGED <<config, db>>
               ELSE IF cfg = NoConfig
               THEN Done(p, FALSE, "no_config") /\ UNCHANGED <<config, db>>
               ELSE /\ db' = record_issued_config(username[p], email[p], TheInbound)
                    /\ config' = [config EXCEPT ![p] = cfg]
                    /\ Done(p, TRUE, "delivered")
    /\ UNCHANGED <<panelVars, now, op, username, email, attempted, attempt, success,
                   inbound, clients, new_client, extendVars, expire_time, started,
                   add_calls, posted, runs>>

-----------------------------------------------------------------------------
(* xui_client.py: add_client_to_inbound *)

AddPool == {u_1, u_2}

\* a direct call add_client_to_inbound(inbound_id, email, expire_time=...)
StartAdd(p) ==
    /\ UNCHANGED requestVars
    /\ overlapped' = (overlapped \/ Overlaps(p))
    /\ CanStart(p)
    /\ \E e \in AddPool, exp \in {0, Epoch + MsPerDay} : Fresh(p, "add", NoUser, e, 0, exp, 1)
    /\ pc' = [pc EXCEPT ![p] = "add_fetch"]
    /\ ret' = [ret EXCEPT ![p] = FALSE]
    /\ outcome' = [outcome EXCEPT ![p] = "none"]
    /\ log' = [log EXCEPT ![p] = Summary(p)]
    /\ UNCHANGED <<panelVars, now, db>>

\* uuid4(): an identifier no other client has
NewUuid(p) == [by |-> p, n |-> 10 * runs[p] + add_calls[p]]

\* new_client = {...}
NewClient(p) ==
    Client(email[p], NewUuid(p), IF expire_time[p] # 0 THEN expire_time[p] ELSE 0)

\* HasEmail without the check: no client is ever found
HasEmailNever(cs, e) == FALSE

\* any(c.get("email") == email for c in clients)
HasEmail(cs, e) == \E i \in 1..Len(cs) : cs[i].email = e

\* login, get_inbounds, the lookup of the inbound and the check for a client with
\* the same email; then new_client is built
AddFetch(p) ==
    /\ UNCHANGED httpVars
    /\ pc[p] = "add_fetch"
    /\ \E authOK \in BOOLEAN, listOK \in BOOLEAN :
        LET found == Fetch(authOK, listOK)
        IN  /\ env_failed' = [env_failed EXCEPT ![p] = @ \/ ~authOK \/ ~listOK]
            /\ inbound' = [inbound EXCEPT ![p] = found]
            /\ IF found = None
               THEN AddReturns(p, FALSE)
               ELSE IF HasEmail(found.clients, email[p])
               THEN AddReturns(p, FALSE)
               ELSE /\ clients' = [clients EXCEPT ![p] = found.clients]
                    /\ new_client' = [new_client EXCEPT ![p] = NewClient(p)]
                    /\ pc' = [pc EXCEPT ![p] = "add_client"]
                    /\ UNCHANGED <<ret, outcome, log, success, attempt>>
    /\ UNCHANGED <<panelVars, now, db, op, username, email, attempted, config, extendVars,
                   expire_time, started, add_calls, posted, runs>>

\* the loop over add_client_urls: POSTs of the single client until one is accepted
\* (return True); when none is, clients.append(new_client) for the update that follows
AddClientLoop(p) ==
    /\ UNCHANGED httpVars
    /\ pc[p] = "add_client"
    /\ posted' = [posted EXCEPT ![p] = TRUE]
    /\ \E k \in 0..NumAddClientUrls :
        /\ k > 0 => PanelMayAdd(new_client[p])
        /\ env_failed' = [env_failed EXCEPT ![p] = @ \/ k # 1]
        /\ IF k > 0
           THEN /\ inbounds' = PanelAddClient(new_client[p])
                /\ AddReturns(p, TRUE)
           ELSE /\ clients' = [clients EXCEPT ![p] = Append(@, new_client[p])]
                /\ pc' = [pc EXCEPT ![p] = "add_update"]
                /\ UNCHANGED <<inbounds, new_client, ret, outcome, log, success, attempt>>
    /\ UNCHANGED <<panelChecksEmail, now, db, op, username, email, attempted, inbound,
                   config, extendVars, expire_time, started, add_calls, runs>>

\* the loop over update_urls_to_try: POSTs of the whole client list until one is
\* accepted (return True); False when none is
AddUpdateLoop(p) ==
    /\ UNCHANGED httpVars
    /\ pc[p] = "add_update"
    /\ \E k \in 0..NumAddUpdateUrls :
        /\ env_failed' = [env_failed EXCEPT ![p] = @ \/ k # 1]
        /\ IF k > 0
           THEN /\ inbounds' = PanelUpdate(clients[p])
                /\ AddReturns(p, TRUE)
           ELSE /\ AddReturns(p, FALSE)
                /\ UNCHANGED inbounds
    /\ UNCHANGED <<panelChecksEmail, now, db, op, username, email, attempted, inbound,
                   config, extendVars, expire_time, started, add_calls, posted, runs>>

-----------------------------------------------------------------------------
(* xui_client.py: update_client_expiry *)

ExtendDays == {1, 2}

ExtendPool == {u_1}

StartExtend(p) ==
    /\ UNCHANGED requestVars
    /\ overlapped' = (overlapped \/ Overlaps(p))
    /\ CanStart(p)
    /\ \E e \in ExtendPool, days \in ExtendDays : Fresh(p, "extend", NoUser, e, days, 0, 0)
    /\ pc' = [pc EXCEPT ![p] = "ext_fetch"]
    /\ ret' = [ret EXCEPT ![p] = FALSE]
    /\ outcome' = [outcome EXCEPT ![p] = "none"]
    /\ log' = [log EXCEPT ![p] = Summary(p)]
    /\ UNCHANGED <<panelVars, now, db>>

\* NewExpiry as a flat window from now, whatever the current expiry
NewExpiryFlat(cur, t, days) == t + (days * 24 * 60 * 60 * 1000)

\* the if/else that computes new_expiry
NewExpiry(cur, t, days) ==
    IF cur = 0 \/ cur < t
    THEN t + (days * 24 * 60 * 60 * 1000)
    ELSE cur + (days * 24 * 60 * 60 * 1000)

\* an update that stamps the new expiry on every client of the list
SetExpiryAll(cs, e, new_expiry) == [i \in 1..Len(cs) |-> [cs[i] EXCEPT !.expiryTime = new_expiry]]

\* client["expiryTime"] = new_expiry, on the first client with that email
SetExpiry(cs, e, new_expiry) ==
    LET k == CHOOSE i \in 1..Len(cs) :
                /\ cs[i].email = e
                /\ \A j \in 1..(i - 1) : cs[j].email # e
    IN  [cs EXCEPT ![k].expiryTime = new_expiry]

\* login, get_inbounds, the lookup of the inbound and of the client, new_expiry
ExtFetch(p) ==
    /\ UNCHANGED httpVars
    /\ pc[p] = "ext_fetch"
    /\ \E authOK \in BOOLEAN, listOK \in BOOLEAN :
        LET found == Fetch(authOK, listOK)
        IN  /\ env_failed' = [env_failed EXCEPT ![p] = @ \/ ~authOK \/ ~listOK]
            /\ inbound' = [inbound EXCEPT ![p] = found]
            /\ IF found = None
               THEN /\ Done(p, FALSE, "returned")
                    /\ UNCHANGED <<clients, current_time, current_expiry>>
               ELSE IF FindClient(found.clients, email[p]) = None
               THEN /\ Done(p, FALSE, "returned")
                    /\ UNCHANGED <<clients, current_time, current_expiry>>
               ELSE LET cur == Get(FindClient(found.clients, email[p]), "expiryTime", 0)
                    IN  /\ current_time' = [current_time EXCEPT ![p] = now]
                        /\ current_expiry' = [current_expiry EXCEPT ![p] = cur]
                        /\ clients' = [clients EXCEPT ![p] =
                              SetExpiry(found.clients, email[p],
                                        NewExpiry(cur, now, add_days[p]))]
                        /\ pc' = [pc EXCEPT ![p] = "ext_update"]
                        /\ UNCHANGED <<ret, outcome, log>>
    /\ UNCHANGED <<panelVars, now, db, op, username, email, attempted, attempt, success,
                   new_client, config, add_days, expire_time, started, add_calls, posted,
                   runs>>

\* the loop over update_urls_to_try: POSTs of the whole client list until one is
\* accepted (return True); False when none is
ExtUpdateLoop(p) ==
    /\ UNCHANGED httpVars
    /\ pc[p] = "ext_update"
    /\ posted' = [posted EXCEPT ![p] = TRUE]
    /\ clients' = [clients EXCEPT ![p] = <<>>]
    /\ \E k \in 0..NumExpiryUpdateUrls :
        /\ env_failed' = [env_failed EXCEPT ![p] = @ \/ k # 1]
        /\ IF k > 0
           THEN /\ inbounds' = PanelUpdate(clients[p])
                /\ Done(p, TRUE, "returned")
           ELSE /\ Done(p, FALSE, "returned")
                /\ UNCHANGED inbounds
    /\ UNCHANGED <<panelChecksEmail, now, db, op, username, email, attempted, attempt,
                   success, inbound, new_client, config, extendVars, expire_time,
                   started, add_calls, runs>>

-----------------------------------------------------------------------------
(* Two provisioning runs against one panel *)

\* the client lists the panel holds when the sessions start
InitRosters ==
    { <<>>,
      <<Client(u_1, [by |-> 0, n |-> 1], 0)>>,
      <<Client(u, [by |-> 0, n |-> 1], Epoch - 1000),
        Client(u_1, [by |-> 0, n |-> 2], Epoch + (MsPerDay \div 2))>> }

Init ==
    /\ inbounds \in {[i \in {TheInbound} |-> Inbound(cs)] : cs \in InitRosters}
    /\ panelChecksEmail \in BOOLEAN
    /\ now = Epoch
    /\ InitDb
    /\ InitSessions

Next ==
    \/ \E p \in Procs : StartCreate(p)
    \/ \E p \in Procs : Alloc(p)
    \/ \E p \in Procs : AddFetch(p)
    \/ \E p \in Procs : AddClientLoop(p)
    \/ \E p \in Procs : AddUpdateLoop(p)
    \/ \E p \in Procs : CreateGetInbounds(p)
    \/ \E p \in Procs : CreateGetConfig(p)

Spec == Init /\ [][Next]_vars

\* the steps of a run that has started
RunStep(p) ==
    \/ Alloc(p)
    \/ AddFetch(p)
    \/ AddClientLoop(p)
    \/ AddUpdateLoop(p)
    \/ CreateGetInbounds(p)
    \/ CreateGetConfig(p)

\* a handler that has started runs on: every request has a timeout and the pause
\* between two attempts is finite
FairSpec == Init /\ [][Next]_vars /\ \A p \in Procs : WF_vars(RunStep(p))

\* whether no other session has used the panel so far
Alone(p) == \A q \in Procs \ {p} : runs[q] = 0

\* whether the emails of cs are exactly base_1 .. base_n, n = Len(cs)
IsNumberedRun(base_username, cs) ==
    SeqToSet(Emails(cs)) = {NumberedEmail(base_username, k) : k \in 1..Len(cs)}

\* C3: in a run whose requests the panel never refused, the handles passed to
\* add_client_to_inbound so far are pairwise distinct
C3_AttemptedHandlesDistinct ==
    \A p \in Procs :
        (op[p] = "create" /\ ~env_failed[p]) =>
            \A i, j \in 1..Len(attempted[p]) :
                i # j => attempted[p][i] # attempted[p][j]

\* C4: a run that started alone on a roster base_1 .. base_n (n >= 1), and whose
\* requests the panel accepted, has allocated base_(n+1), called
\* add_client_to_inbound once and delivered a URI that ends with "#" and the remark
C4_NumberedRosterFirstTry ==
    \A p \in Procs :
        (/\ op[p] = "create" /\ pc[p] = "done"
         /\ username[p] # NoUser
         /\ Alone(p) /\ ~env_failed[p]
         /\ Len(started[p]) >= 1
         /\ IsNumberedRun(username[p], started[p])) =>
            /\ email[p] = NumberedEmail(username[p], Len(started[p]) + 1)
            /\ add_calls[p] = 1
            /\ outcome[p] = "delivered"
            /\ Len(config[p]) >= 2
            /\ SubSeq(config[p], Len(config[p]) - 1, Len(config[p]))
                  = <<"#", Inbound(<<>>).remark>>

\* the retry loop of every run: at most 3 calls of add_client_to_inbound; success
\* comes with the call that was accepted and ends the loop; a run that gives up
\* has made 3 calls, none accepted, has no URI, and only delivered runs are recorded
LoopCeiling ==
    /\ \A p \in Procs :
        op[p] = "create" =>
            /\ add_calls[p] <= 3
            /\ success[p] => /\ pc[p] \in {"get_inbounds", "get_config", "done"}
                             /\ add_calls[p] = attempt[p] + 1
            /\ pc[p] \in {"alloc", "add_fetch", "add_client", "add_update"} =>
                    ~success[p] /\ config[p] = NoConfig
            /\ outcome[p] = "exhausted" =>
                    /\ pc[p] = "done" /\ ~success[p]
                    /\ add_calls[p] = 3
                    /\ config[p] = NoConfig
            /\ (pc[p] = "done" /\ ~success[p]) =>
                    outcome[p] \in {"exhausted", "refused", "no_username"}
    /\ Len(db.issued_configs) = Cardinality({p \in Procs : outcome[p] = "delivered"})

\* C5: a run calls add_client_to_inbound at most 3 times, and once its retry loop
\* has started the run ends: in success after the first accepted call, or in the
\* reported failure after 3 failed calls, with nothing recorded and no URI
C5_AtMostThreeAttemptsThenEnds ==
    /\ []LoopCeiling
    /\ \A p \in Procs : (pc[p] = "alloc") ~> (pc[p] = "done")

\* a run has given up after 3 refused calls
C5_Witness ==
    \E p \in Procs :
        /\ op[p] = "create" /\ pc[p] = "done" /\ outcome[p] = "exhausted"
        /\ add_calls[p] = 3 /\ Len(attempted[p]) = 3

\* C8: on a panel whose addClient endpoint refuses a known email, two runs are
\* never both in success with the same handle
C8_NoSharedHandleSuccess ==
    panelChecksEmail =>
        \A p, q \in Procs :
            (p # q /\ op[p] = "create" /\ op[q] = "create" /\ success[p] /\ success[q]) =>
                email[p] # email[q]

-----------------------------------------------------------------------------
(* Direct calls of the adapter by two actors against one panel, with a clock *)

\* time passes
Tick ==
    /\ UNCHANGED httpVars
    /\ now < Epoch + MaxClock * MsPerDay
    /\ now' = now + MsPerDay
    /\ UNCHANGED <<panelVars, db, pc, op, username, email, attempted, attempt, success,
                   inbound, clients, new_client, ret, config, extendVars,
                   expire_time, outcome, started, env_failed, add_calls, posted, runs, log>>

NextPanel ==
    \/ \E p \in Procs : StartAdd(p)
    \/ \E p \in Procs : AddFetch(p)
    \/ \E p \in Procs : AddClientLoop(p)
    \/ \E p \in Procs : AddUpdateLoop(p)
    \/ \E p \in Procs : StartExtend(p)
    \/ \E p \in Procs : ExtFetch(p)
    \/ \E p \in Procs : ExtUpdateLoop(p)
    \/ Tick

SpecPanel == Init /\ [][NextPanel]_vars

\* C6: a call of add_client_to_inbound whose fetched roster holds the handle has
\* returned False and sent no mutation request; and when a session, alone on the
\* panel, repeats a call that returned True with the same handle, the second call
\* returns False and the roster is one client longer than before the first call
C6_DuplicateHandleRefused ==
    \A p \in Procs :
        (op[p] = "add" /\ pc[p] = "done") =>
            /\ (inbound[p] # None /\ HasEmail(inbound[p].clients, email[p])) =>
                    ret[p] = FALSE /\ ~posted[p]
            /\ (/\ Alone(p) /\ log[p] # <<>>
                /\ log[p][1].op = "add" /\ log[p][1].email = email[p] /\ log[p][1].ret) =>
                    ret[p] = FALSE /\ Len(Roster) = log[p][1].size + 1

\* the second of two calls in sequence with the same handle has been refused on
\* the roster it fetched
C6_Witness ==
    \E p \in Procs :
        /\ op[p] = "add" /\ pc[p] = "done" /\ Alone(p)
        /\ log[p] # <<>> /\ log[p][1].op = "add"
        /\ log[p][1].email = email[p] /\ log[p][1].ret
        /\ inbound[p] # None /\ HasEmail(inbound[p].clients, email[p])
        /\ ret[p] = FALSE /\ ~posted[p]

\* C7: no two clients of the inbound have the same email
C7_HandlesUnique ==
    \A i, j \in 1..Len(Roster) : i # j => Roster[i].email # Roster[j].email

\* C9: no step removes a client from the panel's roster
C9_NoClientRemoved ==
    [][\A i \in 1..Len(Roster) :
          \E j \in 1..Len(Roster') : Roster'[j].id = Roster[i].id]_vars

\* C10: the update that update_client_expiry gets accepted leaves the client with
\* expiry now + d days when the expiry it found was 0 or before now, and T + d days
\* when it found T after now, which is never the flat window now + d days
C10_ExpiryExtension ==
    [][\A p \in Procs :
          (pc[p] = "ext_update" /\ pc'[p] = "done" /\ ret'[p]) =>
              LET T == current_expiry[p]
                  t == current_time[p]
                  d == add_days[p]
                  c == FindClient(Roster', email[p])
              IN  /\ c # None
                  /\ (T = 0 \/ T < t) => c.expiryTime = t + d * MsPerDay
                  /\ T > t => /\ c.expiryTime = T + d * MsPerDay
                              /\ c.expiryTime # t + d * MsPerDay]_vars

\* an expiry that was in the future has been extended by the days asked for
C10_Witness ==
    \E p \in Procs :
        /\ op[p] = "extend" /\ pc[p] = "done" /\ ret[p]
        /\ current_expiry[p] > current_time[p]
        /\ FindClient(Roster, email[p]) # None
        /\ FindClient(Roster, email[p]).expiryTime
              = current_expiry[p] + add_days[p] * MsPerDay

-----------------------------------------------------------------------------
(* The adapter request by request: responses of the panel *)

\* no response: the request raised (timeout, connection error)
NoResponse == [status |-> 0, ctype |-> "", body |-> ""]

\* the statuses other than 200 that the code tells apart, and one it does not
ErrorStatuses == {401, 403, 404, 500}

ContentTypes == {"application/json", "text/html", "text/plain"}

\* bodies: JSON with success true, JSON with success false, an HTML page, other text
Bodies == {"success_true", "success_false", "html_page", "not_json"}

\* the error page of a status other than 200
ErrorPage(s) == [status |-> s, ctype |-> "text/html", body |-> "html_page"]

\* answers to a request: none, 200 with a content type and a text body, 200 with an
\* HTML page, an error page
Responses ==
    {NoResponse}
    \cup [status : {200}, ctype : ContentTypes, body : Bodies \ {"html_page"}]
    \cup {[status |-> 200, ctype |-> "text/html", body |-> "html_page"]}
    \cup {ErrorPage(s) : s \in ErrorStatuses}

\* 'application/json' in content_type
HasJson(ctype) == ctype = "application/json"

\* 'text/html' in content_type
HasHtml(ctype) == ctype = "text/html"

\* response.json() does not raise
Parses(body) == body \in {"success_true", "success_false"}

\* data.get("success")
Success(body) == body = "success_true"

\* answers that say nothing about the request: none at all (the request raised), a
\* 404, a 200 whose body is an HTML page or other text that does not parse
Unusable(r) ==
    \/ r = NoResponse
    \/ r.status = 404
    \/ r.status = 200 /\ ~Parses(r.body)

\* answers to the login request ("" where it carries no token): cookie is the value of the first cookie whose name
\* has 'token' or 'auth' in it, data_token is data["data"]["token"]
LoginResponses ==
    {[status |-> 0, body |-> "", cookie |-> "", data_token |-> ""],
     [status |-> 401, body |-> "not_json", cookie |-> "", data_token |-> ""],
     [status |-> 200, body |-> "not_json", cookie |-> "", data_token |-> ""],
     [status |-> 200, body |-> "success_false", cookie |-> "", data_token |-> ""]}
    \cup [status : {200}, body : {"success_true"}, cookie : {"", "B"}, data_token : {"", "A"}]

\* f"Bearer {self.token}"
Bearer(t) == <<"Bearer ", t>>

\* self.token after the two assignments of a successful login
TokenAfterLogin(r) ==
    LET fromCookie == IF r.cookie # "" THEN r.cookie ELSE token
    IN  IF fromCookie = "" THEN r.data_token ELSE fromCookie

\* session.headers after a successful login
HeaderAfterLogin(r) ==
    IF TokenAfterLogin(r) # "" THEN Bearer(TokenAfterLogin(r)) ELSE authorization

\* the credential a login response carries
Credential(r) == IF r.cookie # "" THEN r.cookie ELSE r.data_token

-----------------------------------------------------------------------------
(* The adapter request by request: control *)

NumLoginUrls == 2
NumListCandidates == 14

\* the (url, method) pairs of get_inbounds alternate GET and POST
IsPost(k) == k % 2 = 0

\* arguments of the calls
ArgEmail == u_1
ArgNewEmail == u_2
ArgDays == 1

Operations == {"get_inbounds", "get_inbound_clients", "get_client_config",
               "get_user_configs", "get_next_available_email",
               "get_client_config_by_email", "add_client_to_inbound",
               "update_client_expiry"}

Ctl == [stack |-> stack, hpc |-> hpc, login_url |-> login_url, cand |-> cand,
        tried |-> tried, accepted |-> accepted, relogins |-> relogins,
        fetched |-> fetched, result |-> result]

SetCtl(c) ==
    /\ stack' = c.stack
    /\ hpc' = c.hpc
    /\ login_url' = c.login_url
    /\ cand' = c.cand
    /\ tried' = c.tried
    /\ accepted' = c.accepted
    /\ relogins' = c.relogins
    /\ fetched' = c.fetched
    /\ result' = c.result

Top(c) == c.stack[Len(c.stack)]

Pop(c) ==
    [c EXCEPT !.stack = SubSeq(@, 1, Len(@) - 1), !.cand = 0, !.tried = {},
              !.accepted = 0, !.relogins = 0]

\* values a call gives its caller
ListValue(v) == [kind |-> "list", value |-> v]
BoolValue(v) == [kind |-> "bool", value |-> v]
StrValue(v) == [kind |-> "str", value |-> v]
NoneValue == [kind |-> "None"]
Raised == [kind |-> "raise"]

\* an adapter that keeps the roster it saw first and answers from it
ListResultKept(obj) ==
    IF obj # <<>>
    THEN [i \in {TheInbound} |-> Inbound(<<>>)]
    ELSE <<>>

\* return inbounds if inbounds else []
ListResult(obj) == IF obj # <<>> THEN obj ELSE <<>>

\* the top-level call ends
Finish(c, v) ==
    [c EXCEPT !.stack = <<>>, !.hpc = "done", !.result = v, !.login_url = 0,
              !.relogins = 0, !.fetched = <<>>]

\* get_inbounds() ends with value v: its caller, or the top-level caller, has it next
Listed(c, v) == [c EXCEPT !.hpc = "listed", !.fetched = v]

\* a method other than get_inbounds returns v: get_client_config returns to
\* get_client_config_by_email, which returns what it got (None when it raised)
Return(c, v) ==
    IF Len(c.stack) = 1 THEN Finish(c, v)
    ELSE Finish(c, IF v = Raised THEN NoneValue ELSE v)

\* a method start that trusts a token cached by an earlier login
EnterMethodCached(c, o) ==
    IF token # "" /\ o = "get_inbounds"
    THEN [c EXCEPT !.stack = Append(@, o), !.hpc = "list", !.cand = 1, !.tried = {},
                   !.accepted = 0, !.relogins = 0]
    ELSE [c EXCEPT !.stack = Append(@, o), !.hpc = "login", !.login_url = 1]

\* self._ensure_authenticated() at the start of a method
EnterMethod(c, o) ==
    [c EXCEPT !.stack = Append(@, o), !.hpc = "login", !.login_url = 1]

\* what a method returns when its _ensure_authenticated() raises
AuthFailure(o) ==
    CASE o = "get_inbounds" -> ListValue(<<>>)
      [] o = "get_inbound_clients" -> ListValue(<<>>)
      [] o = "get_user_configs" -> ListValue(<<>>)
      [] o = "get_next_available_email" -> StrValue(NumberedEmail(u, 1))
      [] o = "get_client_config" -> Raised
      [] o = "get_client_config_by_email" -> NoneValue
      [] o = "add_client_to_inbound" -> BoolValue(FALSE)
      [] o = "update_client_expiry" -> BoolValue(FALSE)

\* a loop that leaves out the candidate after the current one
NextListCandidateSkipping(c) ==
    IF c.cand < NumListCandidates
    THEN [c EXCEPT !.cand = @ + 2, !.hpc = "list", !.relogins = 0]
    ELSE Listed(c, <<>>)

\* the loop of get_inbounds goes to its next (url, method), or ends with []
NextListCandidate(c) ==
    IF c.cand < NumListCandidates
    THEN [c EXCEPT !.cand = @ + 1, !.hpc = "list", !.relogins = 0]
    ELSE Listed(c, <<>>)

\* _login() has returned ok
AfterLogin(c, ok) ==
    IF c.hpc = "relogin"
    THEN IF ok THEN [c EXCEPT !.hpc = "retry"] ELSE NextListCandidate(c)
    ELSE IF ~ok
    THEN IF Top(c) = "get_inbounds" THEN Listed(c, <<>>)
         ELSE Return(c, AuthFailure(Top(c)))
    ELSE IF Top(c) = "get_inbounds"
    THEN [c EXCEPT !.hpc = "list", !.cand = 1, !.tried = {}, !.accepted = 0,
                   !.relogins = 0]
    ELSE EnterMethod(c, "get_inbounds")

\* a loop body that gives up at the first answer it does not accept
AfterListResponseGivingUp(c, r) ==
    LET c1 == [c EXCEPT !.tried = @ \cup {c.cand}]
    IN  IF r # NoResponse /\ r.status = 200 /\ Parses(r.body) /\ Success(r.body)
        THEN Listed([c1 EXCEPT !.accepted = c.cand], ListResult(inbounds))
        ELSE Listed(c1, <<>>)

\* a loop body that asks the same candidate again after a 404
AfterListResponseAgain(c, r) ==
    LET c1 == [c EXCEPT !.tried = @ \cup {c.cand}]
    IN  IF r # NoResponse /\ r.status = 200 /\ Parses(r.body) /\ Success(r.body)
        THEN Listed([c1 EXCEPT !.accepted = c.cand], ListResult(inbounds))
        ELSE IF r # NoResponse /\ r.status = 404
        THEN [c1 EXCEPT !.hpc = "list"]
        ELSE NextListCandidate(c1)

\* the body of the loop of get_inbounds after the response r to its request
AfterListResponse(c, r) ==
    LET c1 == [c EXCEPT !.tried = @ \cup {c.cand}]
    IN  IF r = NoResponse
        THEN IF c.hpc = "list" /\ IsPost(c.cand)
             THEN [c1 EXCEPT !.hpc = "repost"]
             ELSE NextListCandidate(c1)
        ELSE IF r.status = 200
        THEN IF ~HasJson(r.ctype) /\ HasHtml(r.ctype)
             THEN NextListCandidate(c1)
             ELSE IF Parses(r.body) /\ Success(r.body)
             THEN Listed([c1 EXCEPT !.accepted = c.cand], ListResult(inbounds))
             ELSE NextListCandidate(c1)
        ELSE IF r.status = 404
        THEN NextListCandidate(c1)
        ELSE IF r.status \in {401, 403}
        THEN [c1 EXCEPT !.hpc = "relogin", !.login_url = 1, !.relogins = @ + 1]
        ELSE NextListCandidate(c1)

\* the request repeated after the re-login, and its response r
AfterRetryResponse(c, r) ==
    IF r # NoResponse /\ r.status = 200 /\ Parses(r.body) /\ Success(r.body)
    THEN Listed([c EXCEPT !.accepted = c.cand], ListResult(inbounds))
    ELSE NextListCandidate(c)

\* get_user_configs: number of a client email, 0 for the bare base username
ConfigNumber(base_username, e) ==
    IF e = base_username THEN 0 ELSE IntVal(SliceFrom(e, Len(base_username) + 1))

\* whether get_user_configs keeps the client email
IsUserConfig(base_username, e) ==
    \/ e = base_username
    \/ /\ StartsWith(e, base_username \o <<"_">>)
       /\ IntOk(SliceFrom(e, Len(base_username) + 1))

\* a list that is left in the order of the roster
InsertLast(sorted, x) == Append(sorted, x)

\* list.sort(key=number) is stable: x goes behind the entries that are not larger
InsertByNumber(sorted, x) ==
    LET k == Cardinality({i \in 1..Len(sorted) : sorted[i].number <= x.number})
    IN  SubSeq(sorted, 1, k) \o <<x>> \o SubSeq(sorted, k + 1, Len(sorted))

RECURSIVE SortByNumber(_)
SortByNumber(entries) ==
    IF entries = <<>> THEN <<>>
    ELSE InsertByNumber(SortByNumber(SubSeq(entries, 1, Len(entries) - 1)),
                        entries[Len(entries)])

\* get_user_configs after the lookup of the inbound
UserConfigs(cs, base_username) ==
    LET kept == SelectSeq(cs, LAMBDA c : IsUserConfig(base_username, c.email))
    IN  SortByNumber([i \in 1..Len(kept) |->
                        [email |-> kept[i].email,
                         number |-> ConfigNumber(base_username, kept[i].email),
                         client |-> kept[i]]])

\* a mutation loop starts
StartLoop(c, position) ==
    [c EXCEPT !.hpc = position, !.cand = 1, !.tried = {}, !.accepted = 0, !.relogins = 0]

\* get_inbounds() has returned lst to method o, which goes on to its own work
Continue(c, o, lst) ==
    LET found == FindInbound(lst, TheInbound)
    IN  CASE o = "get_inbounds" -> Finish(c, ListValue(lst))
          [] o = "get_inbound_clients" ->
                Return(c, ListValue(IF found = None THEN <<>> ELSE found.clients))
          [] o = "get_user_configs" ->
                Return(c, ListValue(IF found = None THEN <<>>
                                    ELSE UserConfigs(found.clients, u)))
          [] o = "get_next_available_email" ->
                Return(c, StrValue(get_next_available_email(TRUE, found, u, <<>>)))
          [] o = "get_client_config" ->
                LET cfg == get_client_config(found, ArgEmail,
                               IF found = None THEN "vless" ELSE found.protocol)
                IN  Return(c, IF cfg = NoConfig THEN NoneValue ELSE StrValue(cfg))
          [] o = "get_client_config_by_email" ->
                IF found # None /\ HasEmail(found.clients, ArgEmail)
                THEN EnterMethod(c, "get_client_config")
                ELSE Return(c, NoneValue)
          [] o = "add_client_to_inbound" ->
                IF found = None THEN Return(c, BoolValue(FALSE))
                ELSE IF HasEmail(found.clients, ArgNewEmail) THEN Return(c, BoolValue(FALSE))
                ELSE StartLoop(c, "add")
          [] o = "update_client_expiry" ->
                IF found = None THEN Return(c, BoolValue(FALSE))
                ELSE IF FindClient(found.clients, ArgEmail) = None
                THEN Return(c, BoolValue(FALSE))
                ELSE StartLoop(c, "update")

\* if test_response.status_code == 200 ... if result.get("success")
MutationAccepted(r) ==
    r # NoResponse /\ r.status = 200 /\ Parses(r.body) /\ Success(r.body)

\* number of URLs of the update loop of the method
NumUpdateUrls(o) ==
    IF o = "add_client_to_inbound" THEN NumAddUpdateUrls ELSE NumExpiryUpdateUrls

\* a loop body that turns to the update of the whole inbound after the first addClient
\* URL that is not accepted
AfterAddResponseEager(c, r) ==
    LET c1 == [c EXCEPT !.tried = @ \cup {c.cand}]
    IN  IF MutationAccepted(r) THEN Return([c1 EXCEPT !.accepted = c.cand], BoolValue(TRUE))
        ELSE StartLoop(c1, "update")

\* the body of the loop over add_client_urls after the response r
AfterAddResponse(c, r) ==
    LET c1 == [c EXCEPT !.tried = @ \cup {c.cand}]
    IN  IF MutationAccepted(r) THEN Return([c1 EXCEPT !.accepted = c.cand], BoolValue(TRUE))
        ELSE IF c.cand < NumAddClientUrls THEN [c1 EXCEPT !.cand = @ + 1]
        ELSE StartLoop(c1, "update")

\* the body of a loop over update_urls_to_try after the response r
AfterUpdateResponse(c, r) ==
    LET c1 == [c EXCEPT !.tried = @ \cup {c.cand}]
    IN  IF MutationAccepted(r) THEN Return([c1 EXCEPT !.accepted = c.cand], BoolValue(TRUE))
        ELSE IF c.cand < NumUpdateUrls(Top(c)) THEN [c1 EXCEPT !.cand = @ + 1]
        ELSE Return(c1, BoolValue(FALSE))

\* the client list the update request of the method carries
UpdatePayload(o, cs) ==
    IF o = "add_client_to_inbound"
    THEN Append(cs, Client(ArgNewEmail, [by |-> 0, n |-> 10], 0))
    ELSE SetExpiry(cs, ArgEmail,
                   NewExpiry(Get(FindClient(cs, ArgEmail), "expiryTime", 0), now, ArgDays))

-----------------------------------------------------------------------------
(* The adapter request by request: actions *)

\* a request of the call goes out
Sends(kind) ==
    /\ sent' = sent \cup {kind}
    /\ first' = IF first = "none" THEN kind ELSE first

\* a public method of the adapter is called
Call ==
    /\ hpc \in {"idle", "done"}
    /\ ncalls < MaxRuns
    /\ \E o \in Operations :
        SetCtl(EnterMethod([Ctl EXCEPT !.stack = <<>>, !.cand = 0, !.tried = {},
                                       !.accepted = 0, !.relogins = 0, !.fetched = <<>>,
                                       !.result = [kind |-> "none"]], o))
    /\ ncalls' = ncalls + 1
    /\ sent' = {}
    /\ first' = "none"
    /\ resp' = NoResponse
    /\ unusable' = FALSE
    /\ UNCHANGED <<panelVars, now, sessionVars, failure, overlapped, reminderVars, args, token, authorization, issued>>

\* _login: the POST to the login URL and what follows its response
LoginRequest ==
    /\ hpc \in {"login", "relogin"}
    /\ Sends("login")
    /\ \E r \in LoginResponses :
        IF r.status = 0
        THEN /\ SetCtl(AfterLogin(Ctl, FALSE))
             /\ UNCHANGED <<token, authorization, issued>>
        ELSE IF r.status = 200 /\ Parses(r.body) /\ Success(r.body)
        THEN /\ token' = TokenAfterLogin(r)
             /\ authorization' = HeaderAfterLogin(r)
             /\ issued' = Credential(r)
             /\ SetCtl(AfterLogin(Ctl, TRUE))
        ELSE /\ IF login_url < NumLoginUrls
                THEN SetCtl([Ctl EXCEPT !.login_url = @ + 1])
                ELSE SetCtl(AfterLogin(Ctl, FALSE))
             /\ UNCHANGED <<token, authorization, issued>>
    /\ UNCHANGED <<panelVars, now, sessionVars, failure, overlapped, reminderVars, args, resp, ncalls, unusable>>

\* get_inbounds: the request to the current (url, method); after an exception of a
\* POST, the same POST with data={}
ListRequest ==
    /\ hpc \in {"list", "repost"}
    /\ Sends("list")
    /\ \E r \in Responses :
        /\ resp' = r
        /\ unusable' = (unusable \/ Unusable(r))
        /\ SetCtl(AfterListResponse(Ctl, r))
    /\ UNCHANGED <<panelVars, now, sessionVars, failure, overlapped, reminderVars, args, token, authorization, issued, ncalls>>

\* get_inbounds: the request repeated after a re-login
RetryRequest ==
    /\ hpc = "retry"
    /\ Sends("list")
    /\ \E r \in Responses :
        /\ resp' = r
        /\ unusable' = (unusable \/ Unusable(r))
        /\ SetCtl(AfterRetryResponse(Ctl, r))
    /\ UNCHANGED <<panelVars, now, sessionVars, failure, overlapped, reminderVars, args, token, authorization, issued, ncalls>>

\* the caller of get_inbounds() goes on with the value it got
UseListing ==
    /\ hpc = "listed"
    /\ IF Len(stack) = 1
       THEN SetCtl(Continue(Ctl, "get_inbounds", fetched))
       ELSE SetCtl(Continue(Pop(Ctl), stack[Len(stack) - 1], fetched))
    /\ unusable' = FALSE
    /\ UNCHANGED <<panelVars, now, sessionVars, failure, overlapped, reminderVars, args, token, authorization, issued, ncalls,
                   resp, sent, first>>

\* add_client_to_inbound: the POST to the current addClient URL
AddRequest ==
    /\ hpc = "add"
    /\ Sends("add")
    /\ \E r \in Responses :
        /\ resp' = r
        /\ SetCtl(AfterAddResponse(Ctl, r))
        /\ IF MutationAccepted(r)
           THEN inbounds' = PanelAddClient(
                                Client(ArgNewEmail, [by |-> 0, n |-> 10], 0))
           ELSE UNCHANGED inbounds
    /\ UNCHANGED <<panelChecksEmail, now, sessionVars, failure, overlapped, reminderVars, args, token, authorization, issued, ncalls,
                   unusable>>

\* add_client_to_inbound, update_client_expiry: the POST to the current update URL
UpdateRequest ==
    /\ hpc = "update"
    /\ Sends("update")
    /\ \E r \in Responses :
        /\ resp' = r
        /\ SetCtl(AfterUpdateResponse(Ctl, r))
        /\ IF MutationAccepted(r)
           THEN inbounds' = PanelUpdate(UpdatePayload(Top(Ctl),
                                            FindInbound(fetched, TheInbound).clients))
           ELSE UNCHANGED inbounds
    /\ UNCHANGED <<panelChecksEmail, now, sessionVars, failure, overlapped, reminderVars, args, token, authorization, issued, ncalls,
                   unusable>>

\* the panels the calls run against: one without inbounds, one with an inbound
InitRequests ==
    /\ inbounds \in {<<>>, [i \in {TheInbound} |-> Inbound(<<Client(u_1, [by |-> 0, n |-> 1], 0)>>)]}
    /\ panelChecksEmail = FALSE
    /\ now = Epoch
    /\ InitDb
    /\ InitSessions

NextRequests ==
    \/ Call
    \/ LoginRequest
    \/ ListRequest
    \/ RetryRequest
    \/ UseListing
    \/ AddRequest
    \/ UpdateRequest

SpecRequests == InitRequests /\ [][NextRequests]_vars

-----------------------------------------------------------------------------
(* Claims about the candidate resolver *)

\* C11: a candidate request counts as accepted only when its response has HTTP status
\* 200, a JSON content type and a body whose success flag is true; this holds for the
\* listing, the add-client and the update requests alike, so a 200 response without a
\* JSON content type is never accepted.
C11_AcceptedOnlyJsonSuccess ==
    accepted # 0 =>
        /\ resp.status = 200
        /\ HasJson(resp.ctype)
        /\ Parses(resp.body) /\ Success(resp.body)

\* C12: in the listing, the add-client and the update loops alike, a candidate request
\* answered with 401 or 403 is followed by one re-authentication for the same
\* candidate (whose success is followed by one retry of that candidate), never directly
\* by the next candidate or by the end of the operation.
C12_UnauthorizedReauthenticates ==
    [][(hpc \in {"list", "repost", "add", "update"} /\ resp'.status \in {401, 403})
         => (hpc' = "relogin" /\ cand' = cand /\ relogins' = 1)]_vars

\* C13: the candidates of a loop are tried in priority order and the loop stops at the
\* first accepted one: while a loop runs nothing is accepted and exactly the candidates
\* before the current one have been tried, and once a candidate is accepted it is the
\* current one, all earlier ones have been tried, and no request position follows.
C13_PriorityOrderFirstAccepted ==
    /\ hpc \in {"list", "add", "update"} => (accepted = 0 /\ tried = 1..(cand - 1))
    /\ hpc \in {"repost", "relogin", "retry"} => (accepted = 0 /\ tried = 1..cand)
    /\ accepted # 0 => (hpc \in {"listed", "done"} /\ accepted = cand /\ tried = 1..cand)

\* the third listing candidate is accepted after the first two were not
C13_Witness ==
    /\ hpc = "listed"
    /\ accepted = 3
    /\ tried = {1, 2, 3}

\* C14: in get_inbounds an HTML body, a 404, an unparseable body or a transport error
\* never ends the operation: the loop goes on with the next candidate (for a POST that
\* raised, first with the same POST sent again), and only after the last candidate
\* does it end; a response with status 200 and success true is accepted whatever the
\* earlier candidates answered.
C14_UnusableAnswerGoesOn ==
    [][/\ (hpc \in {"list", "repost", "retry"} /\ Unusable(resp'))
          => IF hpc = "list" /\ IsPost(cand) /\ resp' = NoResponse
             THEN hpc' = "repost" /\ cand' = cand /\ stack' = stack
             ELSE IF cand < NumListCandidates
             THEN hpc' = "list" /\ cand' = cand + 1 /\ stack' = stack
             ELSE hpc' = "listed" /\ fetched' = <<>>
       /\ (hpc \in {"list", "repost"} /\ resp'.status = 200 /\ HasJson(resp'.ctype)
             /\ Success(resp'.body))
          => (hpc' = "listed" /\ accepted' = cand /\ fetched' = ListResult(inbounds))]_vars

\* the listing of a panel with an inbound is returned by a candidate after an earlier
\* candidate of the same call got an unusable answer
C14_Witness ==
    /\ hpc = "listed"
    /\ unusable
    /\ accepted > 1
    /\ inbounds # <<>>
    /\ fetched = inbounds

\* C15: when the listing loop ends with no candidate accepted, what get_inbounds gives
\* its caller differs from what it gives for an accepted answer of a panel that has
\* no inbounds, so that the caller can tell the failure from that success.
C15_ExhaustionToldApart ==
    (hpc = "listed" /\ accepted = 0 /\ tried = 1..NumListCandidates)
        => fetched # ListResult(<<>>)

-----------------------------------------------------------------------------
(* Claims about authentication *)

\* C16: every call of a public method makes a login attempt before it sends any
\* listing, add-client or update request, whatever earlier calls and their logins
\* did: the first request of a call is a login request, a call that has sent an
\* inbound request has sent a login request, and so has every finished call.
C16_LoginBeforeInboundRequest ==
    /\ first \in {"none", "login"}
    /\ (sent \cap {"list", "add", "update"} # {}) => "login" \in sent
    /\ (hpc = "done") => "login" \in sent

\* the second call sends a listing request after its own login; the first call had
\* logged in and added a client
C16_Witness ==
    /\ inbounds # <<>>
    /\ HasEmail(Roster, ArgNewEmail)
    /\ ncalls = 2
    /\ first = "login"
    /\ "list" \in sent

\* C17: after successful logins the Authorization header carries the credential of the
\* most recent successful login: the bearer token that login returned, and no bearer
\* token of an earlier login when the most recent one returned a different token or
\* none.
C17_HeaderFromLatestLogin ==
    authorization = IF issued = "" THEN <<>> ELSE Bearer(issued)

\* C18: a call whose authentication failed, so that it ended having sent login
\* requests only, reports the failure to its caller (an exception, None, False or an
\* empty list) and not a usable result.
C18_AuthFailureReported ==
    (hpc = "done" /\ sent = {"login"})
        => result \in {Raised, NoneValue, BoolValue(FALSE), ListValue(<<>>)}

-----------------------------------------------------------------------------
(* Lookups over the listing as the panel sends it: settings is a JSON string *)

MaxInbounds == 2

\* the settings strings: "" , text that is not JSON, and the JSON text of an object
EmptyBlob == [kind |-> "empty"]
MalformedBlob == [kind |-> "malformed"]
JsonBlob(obj) == [kind |-> "json", obj |-> obj]

\* the JSON object {}
EmptyObj == [k \in {} |-> 0]

\* "{}", the default of inbound.get("settings", "{}")
DefaultBlob == JsonBlob(EmptyObj)

\* client lists of the settings objects
LookupRosters ==
    {<<>>,
     <<Client(ArgEmail, [by |-> 0, n |-> 1], 0)>>,
     <<Client(ArgNewEmail, [by |-> 0, n |-> 2], 0)>>,
     <<Client(ArgNewEmail, [by |-> 0, n |-> 2], 0), Client(ArgEmail, [by |-> 0, n |-> 1], 0)>>}

Blobs ==
    {EmptyBlob, MalformedBlob, DefaultBlob}
    \cup {JsonBlob([clients |-> cs]) : cs \in LookupRosters}

\* an inbound of the listing without the settings key
RawInbound(id) ==
    [id |-> id, remark |-> "Srv", protocol |-> "vless", port |-> 443,
     streamSettings |-> JsonBlob([network |-> "tcp", security |-> "none"])]

\* the same inbound with a settings string
WithSettings(raw, b) ==
    [k \in DOMAIN raw \cup {"settings"} |-> IF k = "settings" THEN b ELSE raw[k]]

RawInbounds(id) == {RawInbound(id)} \cup {WithSettings(RawInbound(id), b) : b \in Blobs}

InboundIds == TheInbound..(TheInbound + MaxInbounds - 1)

\* the listings: up to MaxInbounds inbounds in any order, ids distinct
RawListings ==
    UNION {{l \in [1..n -> UNION {RawInbounds(id) : id \in InboundIds}] :
                \A i, k \in 1..n : l[i].id = l[k].id => i = k} : n \in 0..MaxInbounds}

\* settings_str = inbound.get("settings", "{}")
SettingsStr(raw) == Get(raw, "settings", DefaultBlob)

\* json.loads(settings_str) if settings_str else {} raises json.JSONDecodeError
LoadRaises(raw) == SettingsStr(raw).kind = "malformed"

\* settings = json.loads(settings_str) if settings_str else {}, where it does not raise
SettingsObj(raw) ==
    IF SettingsStr(raw).kind = "empty" THEN EmptyObj ELSE SettingsStr(raw).obj

\* settings.get("clients", [])
ClientsIn(raw) == Get(SettingsObj(raw), "clients", <<>>)

\* next((i for i in inbounds if i.get("id") == inbound_id), None) on the raw listing
FindRaw(lst, inbound_id) ==
    IF \E i \in 1..Len(lst) : lst[i].id = inbound_id
    THEN lst[CHOOSE i \in 1..Len(lst) :
                /\ lst[i].id = inbound_id
                /\ \A k \in 1..(i - 1) : lst[k].id # inbound_id]
    ELSE None

\* stream_settings_str = inbound.get("streamSettings", "{}")
StreamStr(raw) == Get(raw, "streamSettings", DefaultBlob)

\* json.loads(stream_settings_str) if stream_settings_str else {} raises
StreamRaises(raw) == StreamStr(raw).kind = "malformed"

\* stream_settings, where json.loads does not raise
StreamObj(raw) ==
    IF StreamStr(raw).kind = "empty" THEN EmptyObj ELSE StreamStr(raw).obj

\* the inbound with its settings parsed, as get_client_config uses it
ParsedInbound(raw) ==
    [id |-> raw.id, remark |-> Get(raw, "remark", "Server"), protocol |-> raw.protocol,
     port |-> raw.port, clients |-> ClientsIn(raw), streamSettings |-> StreamObj(raw)]

\* the steps of a call that the panel can let fail
Failures == {"none", "login", "list", "login2", "list2"}

\* a body of get_inbound_clients that lets the exception of json.loads escape
InboundClientsRaising(lst, inbound_id) ==
    LET found == FindRaw(lst, inbound_id)
    IN  IF found = None THEN ListValue(<<>>)
        ELSE IF LoadRaises(found) THEN Raised
        ELSE ListValue(ListResult(ClientsIn(found)))

\* get_inbound_clients after its login, on the value lst of get_inbounds(); the
\* exception of json.loads is caught by the handler that returns []
InboundClients(lst, inbound_id) ==
    LET found == FindRaw(lst, inbound_id)
    IN  IF found = None THEN ListValue(<<>>)
        ELSE IF LoadRaises(found) THEN ListValue(<<>>)
        ELSE ListValue(ListResult(ClientsIn(found)))

\* get_client_config_by_email: the loop over inbounds from position i
RECURSIVE SearchByEmail(_, _, _)
SearchByEmail(lst, i, e) ==
    IF i > Len(lst) THEN [kind |-> "notfound"]
    ELSE IF LoadRaises(lst[i]) THEN Raised
    ELSE IF HasEmail(ClientsIn(lst[i]), e) THEN [kind |-> "found", id |-> lst[i].id]
    ELSE SearchByEmail(lst, i + 1, e)

\* get_client_config called by get_client_config_by_email: its login (f = "login2"
\* lets it fail), its own get_inbounds() (f = "list2"), then the lookup
ConfigById(f, inbound_id, e, protocol) ==
    LET lst2 == IF f = "list2" THEN <<>> ELSE inbounds
        found == FindRaw(lst2, inbound_id)
    IN  IF f = "login2" THEN Raised
        ELSE IF found = None THEN NoneValue
        ELSE IF LoadRaises(found) \/ StreamRaises(found) THEN NoneValue
        ELSE LET cfg == get_client_config(ParsedInbound(found), e, protocol)
             IN  IF cfg = NoConfig THEN NoneValue ELSE StrValue(cfg)

\* get_client_config_by_email(e) without an inbound id, after its login
ConfigByEmail(f, e) ==
    LET lst == IF f = "list" THEN <<>> ELSE inbounds
        hit == SearchByEmail(lst, 1, e)
    IN  IF hit.kind # "found" THEN NoneValue
        ELSE LET got == ConfigById(f, hit.id, e, FindRaw(lst, hit.id).protocol)
             IN  IF got = Raised THEN NoneValue ELSE got

\* one call of get_client_config_by_email(ArgEmail)
LookupByEmail ==
    /\ hpc = "idle"
    /\ \E f \in Failures :
        /\ failure' = f
        /\ fetched' = IF f \in {"login", "list"} THEN <<>> ELSE inbounds
        /\ result' = IF f = "login" THEN AuthFailure("get_client_config_by_email")
                     ELSE ConfigByEmail(f, ArgEmail)
    /\ stack' = <<"get_client_config_by_email">>
    /\ hpc' = "done"
    /\ ncalls' = ncalls + 1
    /\ UNCHANGED <<panelVars, now, sessionVars, overlapped, reminderVars, args, token, authorization, login_url,
                   cand, tried,
                   accepted, resp, issued, sent, first, relogins, unusable>>

\* one call of get_inbound_clients(TheInbound)
LookupClients ==
    /\ hpc = "idle"
    /\ \E f \in {"none", "login", "list"} :
        /\ failure' = f
        /\ fetched' = IF f \in {"login", "list"} THEN <<>> ELSE inbounds
        /\ result' = IF f = "login" THEN AuthFailure("get_inbound_clients")
                     ELSE InboundClients(IF f = "list" THEN <<>> ELSE inbounds, TheInbound)
    /\ stack' = <<"get_inbound_clients">>
    /\ hpc' = "done"
    /\ ncalls' = ncalls + 1
    /\ UNCHANGED <<panelVars, now, sessionVars, overlapped, reminderVars, args, token, authorization, login_url,
                   cand, tried,
                   accepted, resp, issued, sent, first, relogins, unusable>>

InitLookup ==
    /\ inbounds \in RawListings
    /\ panelChecksEmail = FALSE
    /\ now = Epoch
    /\ InitDb
    /\ InitSessions

NextLookup ==
    \/ LookupByEmail
    \/ LookupClients

SpecLookup == InitLookup /\ [][NextLookup]_vars

\* C19: an inbound whose settings are absent or malformed counts as having no clients
\* and does not abort the search over the listing: when every request of the call is
\* answered and some inbound of the listing holds the email, at whatever position,
\* get_client_config_by_email without an inbound id returns a configuration.
C19_MalformedInboundSkipped ==
    (/\ hpc = "done"
     /\ stack = <<"get_client_config_by_email">>
     /\ failure = "none"
     /\ \E i \in 1..Len(inbounds) :
            /\ ~LoadRaises(inbounds[i])
            /\ HasEmail(ClientsIn(inbounds[i]), ArgEmail))
        => result.kind = "str"

\* the clients the settings of an inbound name: none when the settings are absent,
\* empty or not JSON
ClientsOfSettings(raw) ==
    IF "settings" \notin DOMAIN raw THEN <<>>
    ELSE IF raw.settings.kind # "json" THEN <<>>
    ELSE IF "clients" \notin DOMAIN raw.settings.obj THEN <<>>
    ELSE raw.settings.obj.clients

\* C20: get_inbound_clients returns a list and never raises: the empty list when the
\* login fails, when the listing cannot be fetched or when the inbound id is not in
\* the listing, and otherwise exactly the clients of that inbound's settings.
C20_InboundClientsOrEmpty ==
    (hpc = "done" /\ stack = <<"get_inbound_clients">>)
        => result = ListValue(
                IF failure # "none" THEN <<>>
                ELSE IF \A i \in 1..Len(inbounds) : inbounds[i].id # TheInbound THEN <<>>
                ELSE ClientsOfSettings(FindRaw(inbounds, TheInbound)))

\* get_inbound_clients has returned the two clients of the inbound, which is listed
\* behind another inbound
C20_Witness ==
    /\ hpc = "done"
    /\ stack = <<"get_inbound_clients">>
    /\ failure = "none"
    /\ Len(inbounds) = 2
    /\ inbounds[2].id = TheInbound
    /\ result.kind = "list"
    /\ Len(result.value) = 2

-----------------------------------------------------------------------------
(* Claims about the mutations and the reads of the adapter *)

\* C21: add_client_to_inbound turns to the update of the whole inbound only from the
\* last addClient candidate, after all of them were tried and none was accepted; a
\* request that changes the panel ends the call with True, so that at most one
\* mutation is accepted per call, and the roster after it is the roster before it
\* with the new client appended once.
C21_UpdateOnlyAfterAddClient ==
    [][/\ (hpc # "update" /\ hpc' = "update" /\ stack' = <<"add_client_to_inbound">>)
          => /\ hpc = "add"
             /\ cand = NumAddClientUrls
             /\ tried' = {}
             /\ tried = 1..(NumAddClientUrls - 1)
             /\ ~MutationAccepted(resp')
             /\ inbounds' = inbounds
       /\ (inbounds' # inbounds)
          => /\ hpc' = "done"
             /\ result' = BoolValue(TRUE)
       /\ (inbounds' # inbounds /\ stack = <<"add_client_to_inbound">>)
          => /\ ~HasEmail(Roster, ArgNewEmail)
             /\ Len(Roster') = Len(Roster) + 1
             /\ SubSeq(Roster', 1, Len(Roster)) = Roster
             /\ Roster'[Len(Roster')].email = ArgNewEmail]_vars

\* a call has added the client through the update of the whole inbound, after its
\* addClient requests
C21_Witness ==
    /\ hpc = "done"
    /\ result = BoolValue(TRUE)
    /\ {"add", "update"} \subseteq sent
    /\ Cardinality({i \in 1..Len(Roster) : Roster[i].email = ArgNewEmail}) = 1

-----------------------------------------------------------------------------
(* Claims about the quota and the issuance records *)

\* the clients of the roster that runs of the bot for the user have created
BotClients(user) ==
    {i \in 1..Len(Roster) :
        /\ Roster[i].id.by \in Procs
        /\ username[Roster[i].id.by] = user}

\* C22: when the runs of the bot come one after the other, the number of panel clients
\* created through the bot for a user never exceeds the user's config_limit, also
\* after runs that ended part-way.
C22_ClientsWithinLimit ==
    ~overlapped =>
        \A user \in Usernames : Cardinality(BotClients(user)) <= db.config_limit[user]

\* a run of _create_client_for_inbound by session p ends in this step
CreateEnds(p) == pc[p] # "done" /\ pc'[p] = "done" /\ op'[p] = "create"

\* C28: a run of _create_client_for_inbound in which add_client_to_inbound
\* returned True ends with exactly one issuance record added and configs_created
\* raised by one; a run in which every add attempt failed leaves the records
\* and the counter as they were; nothing else writes them
C28_IssuanceRecordedPerCreatedClient ==
    [][/\ \A p \in Procs :
            CreateEnds(p) =>
                IF success'[p]
                THEN db' = record_issued_config(username'[p], email'[p], TheInbound)
                ELSE db' = db
       /\ (\A p \in Procs : ~CreateEnds(p)) => db' = db]_vars

-----------------------------------------------------------------------------
(* get_client_config on the listing as the panel sends it *)

\* an inbound of the listing without the settings and streamSettings keys
BareInbound(id) == [id |-> id, remark |-> "Srv", protocol |-> "vless", port |-> 443]

\* the same inbound with a streamSettings string
WithStream(raw, b) ==
    [k \in DOMAIN raw \cup {"streamSettings"} |-> IF k = "streamSettings" THEN b ELSE raw[k]]

\* the objects with at most the key k, its value one of vs
Opt(k, vs) == {EmptyObj} \cup {k :> v : v \in vs}

\* realitySettings["settings"]
RealityConfigs ==
    {pk @@ fp @@ sn @@ spx :
        pk \in Opt("publicKey", {"pbk123"}),
        fp \in Opt("fingerprint", {"firefox", ""}),
        sn \in Opt("serverName", {"name.example"}),
        spx \in Opt("spiderX", {""})}

\* stream_settings["realitySettings"]
RealitySettings ==
    {st @@ sns @@ sids :
        st \in Opt("settings", RealityConfigs),
        sns \in Opt("serverNames", {<<"sni.example", "b.example">>}),
        sids \in {"shortIds" :> <<>>, "shortIds" :> <<"ab12", "cd34">>}}

\* stream_settings["wsSettings"]
WsSettings ==
    {h @@ pth :
        h \in Opt("headers", {"Host" :> "example.com"}),
        pth \in Opt("path", {"/ws", ""})}

\* the stream settings objects
StreamObjects ==
    {n @@ sec @@ ws @@ re :
        n \in Opt("network", {"tcp", "ws"}),
        sec \in Opt("security", {"tls", "reality"}),
        ws \in Opt("wsSettings", WsSettings),
        re \in Opt("realitySettings", RealitySettings)}

\* a client list that holds ArgEmail
ConfigRoster ==
    <<Client(ArgNewEmail, [by |-> 0, n |-> 2], 0), Client(ArgEmail, [by |-> 0, n |-> 1], 0)>>

\* the values of the protocol argument
Protocols == {"vless", "VLESS", "vmess", "trojan", "shadowsocks"}

\* listings of one inbound with well-formed settings and any stream settings object
StreamListings ==
    {<<WithStream(WithSettings(BareInbound(TheInbound), JsonBlob([clients |-> ConfigRoster])),
                  JsonBlob(so))>> : so \in StreamObjects}

\* listings of no inbound, or of one inbound with any settings string and a
\* streamSettings string that is absent, empty, not JSON or JSON
BlobListings ==
    {<<>>}
    \cup {<<raw>> : raw \in UNION {RawInbounds(id) : id \in {TheInbound, TheInbound + 1}}}
    \cup {<<WithStream(raw, b)>> :
            raw \in UNION {{BareInbound(id)} \cup {WithSettings(BareInbound(id), sb) : sb \in Blobs} :
                            id \in {TheInbound, TheInbound + 1}},
            b \in {EmptyBlob, MalformedBlob}}

\* get_client_config called by its user: f = "login" lets its login fail, f = "list"
\* its get_inbounds()
ConfigCall(f, inbound_id, e, protocol) ==
    IF f = "login" THEN AuthFailure("get_client_config")
    ELSE ConfigById(IF f = "list" THEN "list2" ELSE "none", inbound_id, e, protocol)

\* one call of get_client_config(TheInbound, e, protocol)
LookupConfig ==
    /\ hpc = "idle"
    /\ \E f \in {"none", "login", "list"}, e \in {ArgEmail, u_3}, protocol \in Protocols :
        /\ failure' = f
        /\ args' = [inbound_id |-> TheInbound, email |-> e, protocol |-> protocol]
        /\ fetched' = IF f \in {"login", "list"} THEN <<>> ELSE inbounds
        /\ result' = ConfigCall(f, TheInbound, e, protocol)
    /\ stack' = <<"get_client_config">>
    /\ hpc' = "done"
    /\ ncalls' = ncalls + 1
    /\ UNCHANGED <<panelVars, now, sessionVars, overlapped, reminderVars, token, authorization, login_url,
                   cand, tried, accepted, resp, issued, sent, first, relogins, unusable>>

InitConfig ==
    /\ inbounds \in StreamListings \cup BlobListings
    /\ panelChecksEmail = FALSE
    /\ now = Epoch
    /\ InitDb
    /\ InitSessions

NextConfig == LookupConfig

SpecConfig == InitConfig /\ [][NextConfig]_vars

\* the scheme of a protocol's URI
Scheme(protocol) ==
    CASE Lower(protocol) = "vless" -> "vless://"
      [] Lower(protocol) = "vmess" -> "vmess://"
      [] Lower(protocol) = "trojan" -> "trojan://"
      [] OTHER -> ""

\* the listing of the call has no inbound of the asked id, or that inbound no
\* client of the asked handle, or the protocol is none of the three
ConfigNotFound ==
    \/ FindRaw(fetched, args.inbound_id) = None
    \/ ~HasEmail(ClientsOfSettings(FindRaw(fetched, args.inbound_id)), args.email)
    \/ Scheme(args.protocol) = ""

\* C23: a call of get_client_config that got past its login returns None exactly
\* when the inbound is absent from the listing it fetched, or no client of the
\* inbound has the handle, or the protocol is none of vless, vmess and trojan;
\* otherwise it returns a URI of the asked protocol
C23_NoneExactlyWhenNotFound ==
    (hpc = "done" /\ stack = <<"get_client_config">> /\ failure # "login")
        => IF ConfigNotFound
           THEN result = NoneValue
           ELSE /\ result.kind = "str"
                /\ result.value[1] = Scheme(args.protocol)

-----------------------------------------------------------------------------
(* Claims about the vless URI *)

\* a call of get_client_config has returned a vless URI
VlessReturned ==
    /\ hpc = "done" /\ stack = <<"get_client_config">>
    /\ result.kind = "str" /\ Lower(args.protocol) = "vless"

\* the stream settings of the inbound the URI was built from
UriStream == StreamObj(FindRaw(inbounds, args.inbound_id))

\* the parameters of the URI: the pieces after the port
UriParams == SubSeq(result.value, 7, Len(result.value))

\* where the parameter k stands in the URI
ParamAt(k) == {i \in 1..(Len(UriParams) - 1) : i % 2 = 1 /\ UriParams[i] = k}

\* the URI has the parameter k with the value v
HasParam(k, v) == \E i \in ParamAt(k) : UriParams[i + 1] = v

UriHost == Get(Get(Get(UriStream, "wsSettings", EmptyDict), "headers", EmptyDict), "Host", "")
UriPath == Get(Get(UriStream, "wsSettings", EmptyDict), "path", "")

\* C26: for the network ws the vless URI starts with
\* vless://{uuid}@{host}:{port}?type=ws&security={security}, has the parameter host
\* when a host is configured and the parameter path when a path is configured,
\* host before path, and ends with #{remark}; for any other network it has
\* neither a host nor a path parameter
C26_WsHostThenPath ==
    VlessReturned =>
        LET uri == result.value
            raw == FindRaw(inbounds, args.inbound_id)
        IN  IF Get(UriStream, "network", "tcp") = "ws"
            THEN /\ uri[1] = "vless://"
                 /\ uri[2] = FindClient(ClientsOfSettings(raw), args.email).id
                 /\ <<uri[3], uri[4], uri[5]>> = <<"@", Server, ":">>
                 /\ uri[6] = raw.port
                 /\ SubSeq(uri, 7, 10)
                        = <<"?type=", "ws", "&security=", Get(UriStream, "security", "none")>>
                 /\ UriHost # "" => HasParam("&host=", UriHost)
                 /\ UriPath # "" => HasParam("&path=", UriPath)
                 /\ \A i \in ParamAt("&host=") : \A j \in ParamAt("&path=") : i < j
                 /\ SubSeq(uri, Len(uri) - 1, Len(uri)) = <<"#", raw.remark>>
            ELSE ParamAt("&host=") \cup ParamAt("&path=") = {}

C26_Witness ==
    /\ VlessReturned
    /\ Get(UriStream, "network", "tcp") = "ws"
    /\ UriHost # "" /\ UriPath # ""
    /\ HasParam("&host=", UriHost) /\ HasParam("&path=", UriPath)

UriReality == Get(UriStream, "realitySettings", EmptyDict)
UriRealityConfig == Get(UriReality, "settings", EmptyDict)

\* C27: for the security reality the vless URI has pbk when a public key is set,
\* fp=chrome when no fingerprint is configured, sni with the configured server
\* name or else the first of serverNames, and sid with the first of shortIds
\* when that list is not empty; for any other security it has none of pbk, fp,
\* sni, sid and spx
C27_RealityParameters ==
    VlessReturned =>
        IF Get(UriStream, "security", "none") = "reality"
        THEN /\ Get(UriRealityConfig, "publicKey", "") # ""
                    => HasParam("&pbk=", UriRealityConfig.publicKey)
             /\ "fingerprint" \notin DOMAIN UriRealityConfig => HasParam("&fp=", "chrome")
             /\ Get(UriRealityConfig, "serverName", "") # ""
                    => HasParam("&sni=", UriRealityConfig.serverName)
             /\ (/\ Get(UriRealityConfig, "serverName", "") = ""
                 /\ Get(UriReality, "serverNames", <<>>) # <<>>)
                    => HasParam("&sni=", UriReality.serverNames[1])
             /\ Get(UriReality, "shortIds", <<>>) # <<>>
                    => HasParam("&sid=", UriReality.shortIds[1])
        ELSE \A k \in {"&pbk=", "&fp=", "&sni=", "&sid=", "&spx="} : ParamAt(k) = {}

C27_Witness ==
    /\ VlessReturned
    /\ Get(UriStream, "security", "none") = "reality"
    /\ "fingerprint" \notin DOMAIN UriRealityConfig /\ HasParam("&fp=", "chrome")
    /\ Get(UriRealityConfig, "serverName", "") = ""
    /\ Get(UriReality, "serverNames", <<>>) # <<>>
    /\ HasParam("&sni=", UriReality.serverNames[1])
    /\ HasParam("&sid=", UriReality.shortIds[1])
    /\ HasParam("&pbk=", "pbk123")

-----------------------------------------------------------------------------
(* The reads of the adapter while the panel's rosters change under it *)

\* the methods that read the roster
ReadOperations == {"get_inbound_clients", "get_client_config", "get_user_configs",
                   "get_next_available_email"}

\* a read is called
CallRead ==
    /\ hpc \in {"idle", "done"}
    /\ ncalls < MaxRuns
    /\ \E o \in ReadOperations :
        SetCtl(EnterMethod([Ctl EXCEPT !.stack = <<>>, !.cand = 0, !.tried = {},
                                       !.accepted = 0, !.relogins = 0, !.fetched = <<>>,
                                       !.result = [kind |-> "none"]], o))
    /\ ncalls' = ncalls + 1
    /\ sent' = {}
    /\ first' = "none"
    /\ resp' = NoResponse
    /\ unusable' = FALSE
    /\ UNCHANGED <<panelVars, now, sessionVars, failure, overlapped, reminderVars, args, token, authorization, issued>>

\* the rosters the panel's administrator or another program may leave
ReadRosters ==
    {<<Client(u_1, [by |-> 0, n |-> 1], 0)>>,
     <<Client(u_2, [by |-> 0, n |-> 2], 0), Client(u_1, [by |-> 0, n |-> 1], 0)>>,
     <<Client(u, [by |-> 0, n |-> 3], 0)>>}

ReadListings == {<<>>} \cup {[i \in {TheInbound} |-> Inbound(r)] : r \in ReadRosters}

\* the panel's inbounds are changed by someone else, at any moment
PanelChange ==
    /\ \E l \in ReadListings \ {inbounds} : inbounds' = l
    /\ UNCHANGED <<panelChecksEmail, now, sessionVars, httpVars, failure>>

NextReads ==
    \/ CallRead
    \/ LoginRequest
    \/ ListRequest
    \/ RetryRequest
    \/ UseListing
    \/ PanelChange

SpecReads == InitRequests /\ [][NextReads]_vars

\* what the read o answers from the listing lst
ReadAnswer(o, lst) ==
    LET found == FindInbound(lst, TheInbound)
        cs == IF found = None THEN <<>> ELSE found.clients
    IN  CASE o = "get_inbound_clients" -> ListValue(cs)
          [] o = "get_user_configs" -> ListValue(UserConfigs(cs, u))
          [] o = "get_next_available_email" ->
                StrValue(get_next_available_email(TRUE, found, u, <<>>))
          [] o = "get_client_config" ->
                IF HasEmail(cs, ArgEmail)
                THEN StrValue(get_client_config(found, ArgEmail, found.protocol))
                ELSE NoneValue

\* C24: the adapter keeps no roster between calls: the listing a read uses is
\* fetched by a request of the same call and is the panel's listing of that
\* moment (or empty when no request was accepted), and the read answers from
\* it; so a read made after a change on the panel answers from the changed roster
C24_NoRosterCache ==
    [][/\ hpc \in {"idle", "done"} => fetched = <<>>
       /\ (hpc # "listed" /\ hpc' = "listed")
            => /\ "list" \in sent' \/ (hpc = "login" /\ fetched' = <<>>)
               /\ fetched' = IF accepted' # 0 THEN inbounds ELSE <<>>
       /\ (hpc = "listed" /\ Len(stack) = 2 /\ stack[1] \in ReadOperations)
            => /\ hpc' = "done" => result' = ReadAnswer(stack[1], fetched)
               /\ (hpc' = "done" /\ accepted # 0 /\ inbounds' = inbounds /\ fetched = inbounds)
                    => result' = ReadAnswer(stack[1], inbounds')]_vars

\* a second or later read returns a roster that only a change on the panel produces
C24_Witness ==
    /\ hpc = "done"
    /\ ncalls >= 2
    /\ inbounds # <<>>
    /\ Len(Roster) = 2
    /\ result = ListValue(Roster)

-----------------------------------------------------------------------------
(* Claims about the handles and the listings of a user *)

\* C25: get_next_available_email never returns the bare base username: what it
\* returns is base_k for a k >= 1, also when the bare handle is free
C25_NeverBareBase ==
    \A p \in Procs :
        (pc[p] = "done" /\ op[p] = "next_email") =>
            /\ email[p] # username[p]
            /\ \E k \in 1..(Len(attempted[p]) + MaxRoster + 1) :
                    email[p] = NumberedEmail(username[p], k)

\* the bare handle is neither in the roster nor excluded, and base_1 is returned
C25_Witness ==
    \E p \in Procs :
        /\ pc[p] = "done" /\ op[p] = "next_email" /\ inbound[p] # None
        /\ ~SettingsRaise(inbound[p])
        /\ inbound[p].clients # <<>>
        /\ username[p] \notin SeqToSet(Emails(inbound[p].clients)) \cup SeqToSet(attempted[p])
        /\ email[p] = NumberedEmail(username[p], 1)

\* one call of get_user_configs(inbound_id, base_username)
UserConfigsCall ==
    /\ hpc = "idle"
    /\ \E f \in {"none", "login", "list"}, inbound_id \in {TheInbound, TheInbound + 1},
          base_username \in Usernames :
        LET found == FindInbound(IF f = "none" THEN inbounds ELSE <<>>, inbound_id)
        IN  /\ failure' = f
            /\ args' = [inbound_id |-> inbound_id, base_username |-> base_username]
            /\ fetched' = IF f = "none" THEN inbounds ELSE <<>>
            /\ result' = ListValue(IF found = None THEN <<>>
                                   ELSE UserConfigs(found.clients, base_username))
    /\ stack' = <<"get_user_configs">>
    /\ hpc' = "done"
    /\ ncalls' = ncalls + 1
    /\ UNCHANGED <<panelVars, now, sessionVars, overlapped, reminderVars, token, authorization, login_url,
                   cand, tried, accepted, resp, issued, sent, first, relogins, unusable>>

NextUserConfigs == UserConfigsCall

\* the client lists of distinct handles, in every order
OrderedRosters ==
    {[i \in 1..Len(es) |-> Client(es[i], [by |-> 0, n |-> i], 0)] :
        es \in {q \in SeqsUpTo(EmailPool, MaxRoster) :
                    \A i, j \in 1..Len(q) : q[i] = q[j] => i = j}}

InitUserConfigs ==
    /\ inbounds \in {[i \in {TheInbound} |-> Inbound(cs)] : cs \in OrderedRosters}
    /\ panelChecksEmail = FALSE
    /\ now = Epoch
    /\ InitDb
    /\ InitSessions

SpecUserConfigs == InitUserConfigs /\ [][NextUserConfigs]_vars

\* the positions of the roster whose handle is base or base_N for an integer N
OwnPositions(cs, base_username) ==
    {i \in 1..Len(cs) :
        \/ cs[i].email = base_username
        \/ /\ StartsWith(cs[i].email, base_username \o <<"_">>)
           /\ IntOk(SliceFrom(cs[i].email, Len(base_username) + 1))}

\* a call of get_user_configs has read the roster of its inbound
UserConfigsRead ==
    /\ hpc = "done" /\ stack = <<"get_user_configs">>
    /\ failure = "none" /\ args.inbound_id = TheInbound

\* C29: get_user_configs returns exactly the clients of the roster whose handle
\* is the base username (number 0) or base_N for an integer N (number N), each
\* once, in ascending order of the number; handles with a suffix that is no
\* integer are left out
C29_OwnConfigsSortedByNumber ==
    UserConfigsRead =>
        LET r == result.value
            own == OwnPositions(Roster, args.base_username)
        IN  /\ result.kind = "list"
            /\ Len(r) = Cardinality(own)
            /\ \A i \in own : \E k \in 1..Len(r) : r[k].client = Roster[i]
            /\ \A k \in 1..Len(r) :
                /\ r[k].email = r[k].client.email
                /\ r[k].number = IF r[k].email = args.base_username THEN 0
                                 ELSE IntVal(SliceFrom(r[k].email, Len(args.base_username) + 1))
            /\ \A k \in 1..(Len(r) - 1) : r[k].number <= r[k + 1].number
            /\ \A k \in 1..Len(r) : r[k].email \notin {u_x, ux, w_1}

\* a roster out of order with a handle of another user and a suffix that is no integer
C29_Witness ==
    /\ UserConfigsRead
    /\ Len(Roster) = 3
    /\ Len(result.value) = 2
    /\ Roster[1].email = u_2
    /\ result.value[1].email = u
    /\ result.value[2].email = u_2
    /\ Roster[2].email = u_x

-----------------------------------------------------------------------------
(* update_client_expiry, request by request, on rosters with and without the client *)

\* update_client_expiry(TheInbound, ArgEmail, ArgDays) is called
CallExpiry ==
    /\ hpc \in {"idle", "done"}
    /\ ncalls < MaxRuns
    /\ SetCtl(EnterMethod([Ctl EXCEPT !.stack = <<>>, !.cand = 0, !.tried = {},
                                      !.accepted = 0, !.relogins = 0, !.fetched = <<>>,
                                      !.result = [kind |-> "none"]],
                          "update_client_expiry"))
    /\ ncalls' = ncalls + 1
    /\ sent' = {}
    /\ first' = "none"
    /\ resp' = NoResponse
    /\ unusable' = FALSE
    /\ UNCHANGED <<panelVars, now, sessionVars, failure, overlapped, reminderVars, args, token, authorization, issued>>

\* no inbound, an inbound without clients, with the client, with another client
\* only, and with both
ExpiryRosters ==
    {<<>>,
     <<Client(ArgEmail, [by |-> 0, n |-> 1], 0)>>,
     <<Client(ArgNewEmail, [by |-> 0, n |-> 2], 0)>>,
     <<Client(ArgNewEmail, [by |-> 0, n |-> 2], 0), Client(ArgEmail, [by |-> 0, n |-> 1], 0)>>}

InitExpiry ==
    /\ inbounds \in {<<>>} \cup {[i \in {TheInbound} |-> Inbound(cs)] : cs \in ExpiryRosters}
    /\ panelChecksEmail = FALSE
    /\ now = Epoch
    /\ InitDb
    /\ InitSessions

NextExpiry ==
    \/ CallExpiry
    \/ LoginRequest
    \/ ListRequest
    \/ RetryRequest
    \/ UseListing
    \/ UpdateRequest

SpecExpiry == InitExpiry /\ [][NextExpiry]_vars

\* update_client_expiry has the listing of its get_inbounds() and that listing
\* lacks the inbound, or the inbound lacks a client of the handle
ExpiryTargetMissing ==
    /\ hpc = "listed"
    /\ stack = <<"update_client_expiry", "get_inbounds">>
    /\ \/ FindInbound(fetched, TheInbound) = None
       \/ \A i \in 1..Len(fetched[TheInbound].clients) :
                fetched[TheInbound].clients[i].email # ArgEmail

\* C30: when the inbound is not in the listing or no client of it has the
\* handle, update_client_expiry returns False without an update request, and
\* the roster is as it was: the panel's inbounds change only in a step that
\* sends an update request
C30_MissingTargetNoUpdate ==
    [][/\ ExpiryTargetMissing
            => /\ hpc' = "done"
               /\ result' = BoolValue(FALSE)
               /\ "update" \notin sent'
               /\ inbounds' = inbounds
       /\ inbounds' # inbounds => (hpc = "update" /\ "update" \in sent')]_vars

\* the listing was accepted, the inbound has clients, none of them of the handle,
\* and the call returned False without an update request
C30_Witness ==
    /\ hpc = "done"
    /\ result = BoolValue(FALSE)
    /\ resp.status = 200 /\ resp.ctype = "application/json" /\ resp.body = "success_true"
    /\ sent = {"login", "list"}
    /\ inbounds # <<>>
    /\ Roster # <<>>
    /\ ~HasEmail(Roster, ArgEmail)

-----------------------------------------------------------------------------
(* Claims about what the mutations leave alone *)

\* C31: a successful update_client_expiry changes only the expiryTime of the
\* client with the given handle: the roster the panel takes has the length and
\* the order of the roster fetched at the start of the call, every other client
\* and every other field of the target client are as fetched, and the other
\* fields of the inbound are as fetched
C31_OnlyExpiryOfTargetChanges ==
    [][(stack = <<"update_client_expiry">> /\ inbounds' # inbounds)
        => LET old == fetched[TheInbound].clients
               new == inbounds'[TheInbound].clients
           IN  /\ hpc' = "done" /\ result' = BoolValue(TRUE)
               /\ Len(new) = Len(old)
               /\ \A i \in 1..Len(old) :
                    IF old[i].email = ArgEmail
                    THEN /\ [new[i] EXCEPT !.expiryTime = old[i].expiryTime] = old[i]
                         /\ new[i].expiryTime # old[i].expiryTime
                    ELSE new[i] = old[i]
               /\ [inbounds'[TheInbound] EXCEPT !.clients = old] = fetched[TheInbound]]_vars

\* the call returned True on a roster of two clients: the expiry of the second,
\* the target, has moved and the first is as it was
C31_Witness ==
    /\ hpc = "done"
    /\ result = BoolValue(TRUE)
    /\ "update" \in sent
    /\ inbounds # <<>>
    /\ Len(Roster) = 2
    /\ Roster[1] = Client(ArgNewEmail, [by |-> 0, n |-> 2], 0)
    /\ Roster[2].email = ArgEmail
    /\ Roster[2].expiryTime > now

\* the call add_client_to_inbound of session p returns True in this step
AddSucceeds(p) ==
    /\ op[p] = "add"
    /\ pc[p] \in {"add_client", "add_update"}
    /\ pc'[p] = "done"
    /\ ret'[p]

\* C32: a successful add_client_to_inbound leaves every client the inbound had
\* as it was and appends exactly one client, with the requested handle, the
\* requested expire_time (0 when none is given) and enable true, on the
\* add-client path and on the path of the roster update
C32_AddAppendsOneClient ==
    [][\A p \in Procs :
        AddSucceeds(p) =>
            /\ Len(Roster') = Len(Roster) + 1
            /\ SubSeq(Roster', 1, Len(Roster)) = Roster
            /\ Roster'[Len(Roster')].email = email[p]
            /\ Roster'[Len(Roster')].expiryTime = expire_time[p]
            /\ Roster'[Len(Roster')].enable = TRUE]_vars

\* the same holds of the calls during which no other call changed the roster
AddAppendsWhenRosterAsFetched ==
    [][\A p \in Procs :
        (AddSucceeds(p) /\ clients[p] \in {Roster, Append(Roster, new_client[p])}) =>
            /\ Len(Roster') = Len(Roster) + 1
            /\ SubSeq(Roster', 1, Len(Roster)) = Roster
            /\ Roster'[Len(Roster')].email = email[p]
            /\ Roster'[Len(Roster')].expiryTime = expire_time[p]
            /\ Roster'[Len(Roster')].enable = TRUE]_vars

-----------------------------------------------------------------------------
(* bot.db: the table reminders *)

\* config.REMINDER_DAYS, in the order of the loop
REMINDER_DAYS == <<10, 3>>

\* reminder_field of a row for days_before
ReminderField(r, days_before) ==
    IF days_before = 10 THEN r.reminder_10_days_sent ELSE r.reminder_3_days_sent

\* Database.add_reminder on the table tbl: DELETE the row of (user_id, email,
\* inbound_id), INSERT a new one
AddReminder(tbl, user_id, e, inbound_id, expire) ==
    [rows |-> Append(SelectSeq(tbl.rows,
                               LAMBDA r : ~(/\ r.user_id = user_id
                                            /\ r.email = e
                                            /\ r.inbound_id = inbound_id)),
                     [id |-> tbl.seq + 1, user_id |-> user_id, email |-> e,
                      inbound_id |-> inbound_id, expire_time |-> expire,
                      reminder_10_days_sent |-> 0, reminder_3_days_sent |-> 0]),
     seq |-> tbl.seq + 1]

\* Database.add_reminder
add_reminder(user_id, e, inbound_id, expire) ==
    AddReminder(reminders, user_id, e, inbound_id, expire)

\* Database.get_pending_reminders: the positions of the rows it selects
get_pending_reminders(days_before) ==
    LET target_timestamp == now + days_before * MsPerDay
        time_range == MsPerDay
    IN  {i \in 1..Len(reminders.rows) :
            /\ reminders.rows[i].expire_time >= target_timestamp - time_range
            /\ reminders.rows[i].expire_time <= target_timestamp + time_range
            /\ ReminderField(reminders.rows[i], days_before) = 0}

\* Database.mark_reminder_sent on a row
mark_reminder_sent(r, days_before) ==
    IF days_before = 10 THEN [r EXCEPT !.reminder_10_days_sent = 1]
    ELSE [r EXCEPT !.reminder_3_days_sent = 1]

-----------------------------------------------------------------------------
(* Users whose usernames are a prefix of one another: create and download *)

\* two Telegram usernames, the second of the form of a handle of the first
Owners == {u, u_1}

\* the handle the retry loop gets accepted: get_next_available_email with the
\* handles tried so far excluded, add_client_to_inbound refusing a handle the
\* roster has, at most max_attempts times
RECURSIVE CreatedHandle(_, _, _)
CreatedHandle(user, attempted_emails, n) ==
    IF n = max_attempts THEN NoEmail
    ELSE LET e == get_next_available_email(TRUE, FindInbound(inbounds, TheInbound),
                                           user, attempted_emails)
         IN  IF HasEmail(Roster, e)
             THEN CreatedHandle(user, Append(attempted_emails, e), n + 1)
             ELSE e

\* a run of _create_client_for_inbound for `user` in which the panel answers
\* every request: the client is added with the handle of the loop, the URI is
\* obtained and the issuance is recorded
CreateDelivered ==
    /\ \E user \in Owners :
        /\ can_create_config(user)
        /\ Len(Roster) < MaxRoster
        /\ LET e == CreatedHandle(user, <<>>, 0)
           IN  /\ e # NoEmail
               /\ inbounds' = PanelAddClient(
                                Client(e, [by |-> user, n |-> Len(Roster) + 1],
                                       now + CONFIG_EXPIRY_DAYS * MsPerDay))
               /\ db' = record_issued_config(user, e, TheInbound)
               /\ args' = [inbound_id |-> TheInbound, base_username |-> user]
               /\ result' = StrValue(e)
    /\ stack' = <<"create_config">>
    /\ hpc' = "done"
    /\ UNCHANGED <<panelChecksEmail, now, pc, op, username, email, attempted, attempt,
                   success, inbound, clients, new_client, ret, config, add_days,
                   expire_time, current_time, current_expiry, outcome, started,
                   env_failed, add_calls, posted, runs, log, overlapped, reminderVars, failure,
                   token, authorization, login_url, cand, tried, accepted, resp, issued,
                   sent, first, relogins, fetched, ncalls, unusable>>

\* button_callback, download_config: get_user_configs of the caller's username,
\* the last entry is the one delivered; the delivery is recorded as an issuance,
\* and a reminder is added when the client has an expireTime
DownloadConfig ==
    /\ Len(db.issued_configs) < 2 * MaxRoster
    /\ \E user \in Owners, f \in {"none", "list"} :
        LET user_configs == IF f = "none" THEN UserConfigs(Roster, user) ELSE <<>>
        IN  /\ failure' = f
            /\ args' = [inbound_id |-> TheInbound, base_username |-> user]
            /\ result' = ListValue(user_configs)
            /\ IF user_configs # <<>>
               THEN LET last_config == user_configs[Len(user_configs)]
                        expire == Get(last_config.client, "expireTime", 0)
                    IN  /\ db' = record_issued_config(user, last_config.email, TheInbound)
                        /\ reminders' = IF expire > 0
                                        THEN add_reminder(user, last_config.email,
                                                          TheInbound, expire)
                                        ELSE reminders
               ELSE db' = db /\ reminders' = reminders
    /\ stack' = <<"download_config">>
    /\ hpc' = "done"
    /\ UNCHANGED <<panelVars, now, pc, op, username, email, attempted, attempt,
                   success, inbound, clients, new_client, ret, config, add_days,
                   expire_time, current_time, current_expiry, outcome, started,
                   env_failed, add_calls, posted, runs, log, overlapped, reminded,
                   token, authorization, login_url, cand, tried, accepted, resp, issued,
                   sent, first, relogins, fetched, ncalls, unusable>>

\* an empty inbound and a limit of MaxRoster configs for each of the two users
InitOwners ==
    /\ inbounds = [i \in {TheInbound} |-> Inbound(<<>>)]
    /\ panelChecksEmail = FALSE
    /\ now = Epoch
    /\ db = [config_limit |-> [n \in Owners |-> MaxRoster],
             configs_created |-> [n \in Owners |-> 0],
             issued_configs |-> <<>>]
    /\ InitSessions

NextOwners ==
    \/ CreateDelivered
    \/ DownloadConfig

SpecOwners == InitOwners /\ [][NextOwners]_vars

\* C33: get_user_configs called with one username never returns a client that
\* was created for another username
C33_NoForeignConfig ==
    (hpc = "done" /\ stack = <<"download_config">>)
        => \A k \in 1..Len(result.value) :
                result.value[k].client.id.by = args.base_username

-----------------------------------------------------------------------------
(* The reminder timer and the downloads that add reminders *)

MaxMessages == 3

\* the messages of one pass over the rows at the positions `todo`, lowest first
RECURSIVE Messages(_, _)
Messages(todo, days) ==
    IF todo = {} THEN <<>>
    ELSE LET i == CHOOSE k \in todo : \A m \in todo : k <= m
             r == reminders.rows[i]
         IN  <<[user_id |-> r.user_id, email |-> r.email, inbound_id |-> r.inbound_id,
                days |-> days]>>
             \o Messages(todo \ {i}, days)

\* check_and_send_reminders: for each of REMINDER_DAYS the pending rows get a
\* message; a row is marked when its send_message did not raise
check_and_send_reminders ==
    /\ Len(reminded) < MaxMessages
    /\ \E ok10 \in SUBSET get_pending_reminders(REMINDER_DAYS[1]),
          ok3 \in SUBSET get_pending_reminders(REMINDER_DAYS[2]) :
        /\ reminded' = reminded \o Messages(ok10, REMINDER_DAYS[1])
                                \o Messages(ok3, REMINDER_DAYS[2])
        /\ reminders' = [reminders EXCEPT !.rows =
              [i \in 1..Len(reminders.rows) |->
                  IF i \in ok10 THEN mark_reminder_sent(reminders.rows[i], REMINDER_DAYS[1])
                  ELSE IF i \in ok3
                  THEN mark_reminder_sent(reminders.rows[i], REMINDER_DAYS[2])
                  ELSE reminders.rows[i]]]
    /\ stack' = <<"check_and_send_reminders">>
    /\ hpc' = "done"
    /\ UNCHANGED <<panelVars, now, sessionVars, overlapped, failure, args, token,
                   authorization, login_url, cand, tried, accepted, resp, issued, sent,
                   first, relogins, fetched, result, ncalls, unusable>>

\* a panel client that has the field the bot reads, expireTime
ReminderClient(e, expire) ==
    [id |-> [by |-> u, n |-> 1], email |-> e, expiryTime |-> expire, enable |-> TRUE,
     expireTime |-> expire]

\* one client that expires ten or three days after the start
InitReminders ==
    /\ inbounds \in {[i \in {TheInbound} |-> Inbound(<<ReminderClient(u_1, Epoch + d * MsPerDay)>>)] :
                        d \in {REMINDER_DAYS[1], REMINDER_DAYS[2]}}
    /\ panelChecksEmail = FALSE
    /\ now = Epoch
    /\ db = [config_limit |-> [n \in Owners |-> MaxRoster],
             configs_created |-> [n \in Owners |-> 0],
             issued_configs |-> <<>>]
    /\ InitSessions

NextReminders ==
    \/ DownloadConfig
    \/ check_and_send_reminders
    \/ Tick

SpecReminders == InitReminders /\ [][NextReminders]_vars

\* C34: for each (user, handle, inbound) and each reminder kind the reminder is
\* sent at most once, whatever downloads that add the reminder again come
\* between the timer ticks; and a row is marked as sent for a kind only in a
\* tick that delivered its message
C34_ReminderAtMostOnce ==
    [][/\ \A i, j \in 1..Len(reminded') : reminded'[i] = reminded'[j] => i = j
       /\ \A i \in 1..Len(reminders.rows) : \A k \in 1..2 :
            (/\ i <= Len(reminders'.rows)
             /\ reminders'.rows[i].id = reminders.rows[i].id
             /\ ReminderField(reminders.rows[i], REMINDER_DAYS[k]) = 0
             /\ ReminderField(reminders'.rows[i], REMINDER_DAYS[k]) = 1)
                => \E m \in (Len(reminded) + 1)..Len(reminded') :
                        /\ reminded'[m].email = reminders.rows[i].email
                        /\ reminded'[m].user_id = reminders.rows[i].user_id
                        /\ reminded'[m].days = REMINDER_DAYS[k]]_vars

-----------------------------------------------------------------------------
(* Claims about the number of requests of a call *)

\* the positions of the loop of get_inbounds, in the order of one pass of its body
ListPhases == {"list", "repost", "relogin", "retry"}

ListPhase ==
    CASE hpc = "list" -> 0
      [] hpc = "repost" -> 1
      [] hpc = "relogin" -> 2
      [] hpc = "retry" -> 3

\* the same, read in the next state
ListPhaseNext ==
    CASE hpc' = "list" -> 0
      [] hpc' = "repost" -> 1
      [] hpc' = "relogin" -> 2
      [] hpc' = "retry" -> 3

\* every step inside a loop moves forward: to a later candidate, or to a later
\* position of the same candidate, or to the next login URL of a re-login
LoopsAdvance ==
    /\ cand <= NumListCandidates
    /\ (hpc \in ListPhases /\ hpc' \in ListPhases)
         => \/ cand' = cand + 1
            \/ cand' = cand /\ ListPhaseNext > ListPhase
            \/ cand' = cand /\ hpc' = hpc /\ hpc = "relogin" /\ login_url' = login_url + 1
    /\ (hpc \in {"add", "update"} /\ hpc' = hpc) => cand' = cand + 1
    /\ hpc \in {"add", "update"} => cand \notin tried
    /\ hpc = "retry" => cand \in tried /\ relogins = 1 /\ resp.status \in {401, 403}
    /\ hpc \in {"login", "relogin"} => login_url \in 1..NumLoginUrls

\* C35, as stated: a request of the loop of get_inbounds that is not the retry
\* after a re-login goes to a candidate that had no request yet, so a candidate
\* gets at most one request plus one retry; the mutation loops ask every
\* candidate URL at most once; no loop revisits a candidate
C35_OneRequestPerCandidate ==
    [][/\ LoopsAdvance
       /\ hpc \in {"list", "repost"} => cand \notin tried]_vars

\* C35, amended: a call ends after a bounded number of requests; a candidate of
\* get_inbounds gets one request, a second one only when it is a POST whose
\* first request raised, and one retry after a re-login for 401/403; the
\* mutation loops ask every candidate URL at most once
C35_BoundedRequests ==
    [][/\ LoopsAdvance
       /\ hpc = "list" => cand \notin tried
       /\ hpc = "repost" => cand \in tried /\ IsPost(cand) /\ resp = NoResponse]_vars

\* the POST to the last candidate raised and is about to be repeated
C35_Witness ==
    /\ hpc = "repost"
    /\ cand = NumListCandidates
    /\ tried = 1..NumListCandidates
    /\ sent = {"login", "list"}

-----------------------------------------------------------------------------
(* The admin commands *)

\* config.ADMIN_USERNAMES
ADMIN_USERNAMES == <<<<"@", "A">>>>

\* update.effective_user.username of the callers; NoUser is a caller without one
Callers == {NoUser, <<"a">>, <<"A">>, u, u_1}

\* context.args[0] of the commands
Targets == {u, <<"@", "U">>, u_1, <<"w">>}

\* context.args[1] of /adduser and /setlimit
Limits == {0, 2}

\* s.lstrip('@')
RECURSIVE LStripAt(_)
LStripAt(s) ==
    IF s # <<>> /\ s[1] = "@" THEN LStripAt(SubSeq(s, 2, Len(s))) ELSE s

\* s.lower(), on the letters the usernames of the model have
LowerStr(s) ==
    [i \in 1..Len(s) |-> CASE s[i] = "A" -> "a"
                           [] s[i] = "U" -> "u"
                           [] s[i] = "W" -> "w"
                           [] OTHER -> s[i]]

\* a check that lets a caller without username pass
is_admin_unnamed(name) ==
    \/ name = NoUser
    \/ \E i \in 1..Len(ADMIN_USERNAMES) :
          LowerStr(LStripAt(name)) = LowerStr(LStripAt(ADMIN_USERNAMES[i]))

\* is_admin(username): None and "" are both `not username`
is_admin(name) ==
    IF name = NoUser THEN FALSE
    ELSE \E i \in 1..Len(ADMIN_USERNAMES) :
            LowerStr(LStripAt(name)) = LowerStr(LStripAt(ADMIN_USERNAMES[i]))

\* Database.get_user_by_username: the users row whose username matches the
\* normalized name (the key of the row), or None
get_user_by_username(name) ==
    IF LowerStr(LStripAt(name)) \in DOMAIN db.config_limit
    THEN LowerStr(LStripAt(name))
    ELSE NoUser

\* Database.set_config_limit
set_config_limit(user, limit) == [db EXCEPT !.config_limit[user] = limit]

\* email_pattern ^(.+)_(\d+)$
MatchesEmailPattern(s) ==
    \E k \in 2..(Len(s) - 1) :
        /\ s[k] = "_"
        /\ \A m \in (k + 1)..Len(s) : IsDigit(s[m])

\* the variables no admin command writes
adminFrame == <<panelChecksEmail, now, pc, op, username, email, attempted, attempt, success,
                inbound, clients, new_client, ret, config, add_days, expire_time,
                current_time, current_expiry, outcome, started, env_failed, add_calls,
                posted, runs, log, overlapped, failure, token, authorization, login_url,
                cand, tried, accepted, resp, issued, sent, first, relogins, fetched,
                ncalls, unusable, reminded>>

\* a command handler has run for the caller and has sent its last reply
Replied(handler, caller, target, text) ==
    /\ stack' = <<handler>>
    /\ hpc' = "done"
    /\ args' = [caller |-> caller, target |-> target]
    /\ result' = [kind |-> "reply", text |-> text]

Denied == "no admin rights"

\* /adduser <username> <limit>
add_user_command ==
    \E caller \in Callers, target \in Targets, limit \in Limits :
        /\ IF ~is_admin(caller)
           THEN /\ Replied("add_user_command", caller, target, Denied)
                /\ db' = db
           ELSE LET user == get_user_by_username(LStripAt(target))
                IN  IF user # NoUser
                    THEN /\ db' = set_config_limit(user, limit)
                         /\ Replied("add_user_command", caller, target, "limit set")
                    ELSE /\ db' = db
                         /\ Replied("add_user_command", caller, target, "not found")
        /\ UNCHANGED <<inbounds, reminders, adminFrame>>

\* /setlimit <username> <limit>
set_limit_command ==
    \E caller \in Callers, target \in Targets, limit \in Limits :
        /\ IF ~is_admin(caller)
           THEN /\ Replied("set_limit_command", caller, target, Denied)
                /\ db' = db
           ELSE LET user == get_user_by_username(LStripAt(target))
                IN  IF user = NoUser
                    THEN /\ db' = db
                         /\ Replied("set_limit_command", caller, target, "not found")
                    ELSE /\ db' = set_config_limit(user, limit)
                         /\ Replied("set_limit_command", caller, target, "limit set")
        /\ UNCHANGED <<inbounds, reminders, adminFrame>>

\* /cleardb: DELETE FROM every table, and its row of sqlite_sequence
clear_database_command ==
    \E caller \in Callers :
        /\ IF ~is_admin(caller)
           THEN /\ Replied("clear_database_command", caller, NoUser, Denied)
                /\ UNCHANGED <<db, reminders>>
           ELSE /\ db' = [config_limit |-> <<>>, configs_created |-> <<>>,
                          issued_configs |-> <<>>]
                /\ reminders' = [rows |-> <<>>, seq |-> 0]
                /\ Replied("clear_database_command", caller, NoUser, "cleared")
        /\ UNCHANGED <<inbounds, adminFrame>>

\* Database.delete_user_data: the rows of the user in reminders, issued_configs, users
delete_user_data(user) ==
    [config_limit |-> [n \in DOMAIN db.config_limit \ {user} |-> db.config_limit[n]],
     configs_created |-> [n \in DOMAIN db.configs_created \ {user} |-> db.configs_created[n]],
     issued_configs |-> SelectSeq(db.issued_configs, LAMBDA r : r.user_id # user)]

\* /deleteuser <username>
delete_user_command ==
    \E caller \in Callers, target \in Targets :
        /\ IF ~is_admin(caller)
           THEN /\ Replied("delete_user_command", caller, target, Denied)
                /\ UNCHANGED <<db, reminders>>
           ELSE LET user == get_user_by_username(LowerStr(LStripAt(target)))
                IN  IF user = NoUser
                    THEN /\ Replied("delete_user_command", caller, target, "not found")
                         /\ UNCHANGED <<db, reminders>>
                    ELSE /\ db' = delete_user_data(user)
                         /\ reminders' = [reminders EXCEPT !.rows =
                                SelectSeq(@, LAMBDA r : r.user_id # user)]
                         /\ Replied("delete_user_command", caller, target, "deleted")
        /\ UNCHANGED <<inbounds, adminFrame>>

\* /extend <username or email> [days]: update_client_expiry on the email given,
\* or on the last config of the username; the panel accepts the update or not
extend_config_command ==
    \E caller \in Callers, target \in Targets, accepts \in BOOLEAN :
        /\ IF ~is_admin(caller)
           THEN /\ Replied("extend_config_command", caller, target, Denied)
                /\ inbounds' = inbounds
           ELSE LET target_input == LStripAt(target)
                    user_configs == UserConfigs(Roster, target_input)
                    e == IF MatchesEmailPattern(target_input) THEN target_input
                         ELSE IF user_configs # <<>>
                         THEN user_configs[Len(user_configs)].email
                         ELSE NoEmail
                    client == FindClient(Roster, e)
                IN  IF e = NoEmail \/ client = None
                    THEN /\ Replied("extend_config_command", caller, target, "not found")
                         /\ inbounds' = inbounds
                    ELSE LET new_expiry == NewExpiry(client.expiryTime, now, ArgDays)
                         IN  /\ new_expiry <= Epoch + (MaxClock + MaxRuns) * MsPerDay
                             /\ IF accepts
                                THEN /\ inbounds' = PanelUpdate(SetExpiry(Roster, e, new_expiry))
                                     /\ Replied("extend_config_command", caller, target,
                                                "extended")
                                ELSE /\ inbounds' = inbounds
                                     /\ Replied("extend_config_command", caller, target,
                                                "not extended")
        /\ UNCHANGED <<db, reminders, adminFrame>>

\* Database.sync_reminders_from_xui for one user, client by client
RECURSIVE SyncClients(_, _, _)
SyncClients(tbl, user, cs) ==
    IF cs = <<>> THEN tbl
    ELSE LET client == cs[1]
             expire == Get(client, "expireTime", 0)
             issued_row == \E k \in 1..Len(db.issued_configs) :
                              /\ db.issued_configs[k].user_id = user
                              /\ db.issued_configs[k].email = client.email
                              /\ db.issued_configs[k].inbound_id = TheInbound
         IN  SyncClients(IF expire > 0 /\ issued_row
                         THEN AddReminder(tbl, user, client.email, TheInbound, expire)
                         ELSE tbl,
                         user, SubSeq(cs, 2, Len(cs)))

\* the loop of /sync_reminders over db.get_all_users()
RECURSIVE SyncUsers(_, _)
SyncUsers(tbl, users) ==
    IF users = <<>> THEN tbl
    ELSE SyncUsers(SyncClients(tbl, users[1], Roster), SubSeq(users, 2, Len(users)))

\* /sync_reminders
sync_reminders_command ==
    \E caller \in Callers :
        /\ reminders.seq < MaxMessages
        /\ IF ~is_admin(caller)
           THEN /\ Replied("sync_reminders_command", caller, NoUser, Denied)
                /\ reminders' = reminders
           ELSE /\ reminders' = SyncUsers(reminders, SetToSeq(DOMAIN db.config_limit))
                /\ Replied("sync_reminders_command", caller, NoUser, "synced")
        /\ UNCHANGED <<db, inbounds, adminFrame>>

\* two users who have started the bot, one issued config, one or two clients
InitAdmin ==
    /\ inbounds \in {[i \in {TheInbound} |-> Inbound(cs)] :
                        cs \in {<<ReminderClient(u_1, Epoch + REMINDER_DAYS[2] * MsPerDay)>>,
                                <<Client(u_1, [by |-> u, n |-> 1], 0),
                                  Client(u_2, [by |-> u, n |-> 2], Epoch + MsPerDay)>>}}
    /\ panelChecksEmail = FALSE
    /\ now = Epoch
    /\ db = [config_limit |-> [n \in Owners |-> DefaultLimit],
             configs_created |-> [n \in Owners |-> IF n = u THEN 1 ELSE 0],
             issued_configs |-> <<[user_id |-> u, email |-> u_1, inbound_id |-> TheInbound]>>]
    /\ InitSessions

NextAdmin ==
    \/ add_user_command
    \/ set_limit_command
    \/ clear_database_command
    \/ delete_user_command
    \/ extend_config_command
    \/ sync_reminders_command

SpecAdmin == InitAdmin /\ [][NextAdmin]_vars

\* what the admin commands mutate: the users' limits and rows, the issuance
\* log, the reminders, the clients of the panel
AdminData == <<db, reminders, inbounds>>

\* C36: no admin mutation is executed for a caller whose normalized username is
\* not in ADMIN_USERNAMES, a caller without username included: a step of an
\* admin command that changes the limits, the tables or the panel's clients
\* has a caller whose name without leading @, in lower case, is "a"
C36_AdminMutationsOnlyForAdmins ==
    [][AdminData' # AdminData
          => /\ args'.caller # NoUser
             /\ args'.caller \in {<<"a">>, <<"A">>}
             /\ result'.text # Denied]_vars

\* a caller without username asked for /cleardb and the tables are as they were
C36_Witness ==
    /\ hpc = "done"
    /\ stack = <<"clear_database_command">>
    /\ args.caller = NoUser
    /\ result.text = Denied
    /\ db.issued_configs # <<>>

-----------------------------------------------------------------------------
(* Claims about the allocator without a roster *)

=============================================================================
